---- MODULE Spec2Model ----
(***************************************************************************)
(* Model of htmlDocsRAG: the Markdown section splitter and chunker         *)
(* (chunking.py), reciprocal rank fusion and the query orchestrator        *)
(* (db.py).  Strings are sequences of one-character strings.               *)
(***************************************************************************)
EXTENDS Integers, Sequences, FiniteSets, TLC

VARIABLES
    text,           \* chunk_text: the text argument
    chunk_size,     \* chunk_text: the chunk_size argument
    chunk_overlap,  \* chunk_text: the chunk_overlap argument
    raw,            \* chunk_text: `chunks` as it stands before the overlap pass
    out,            \* chunk_text: the returned list
    outcome,        \* "idle", "pending", "returned" or "raised" (ValueError of range())
    doc,            \* the content of the Markdown file
    relative_path,  \* process_file: the file's path relative to base_dir
    sections,       \* the list parse_markdown_sections returned
    all_chunks,     \* the list process_file returned
    phase,          \* "idle", "start", "parsed", "processed" or "failed"
    results_lists,  \* reciprocal_rank_fusion: the results_lists argument
    rrf_k,          \* reciprocal_rank_fusion: the k argument
    fused,          \* reciprocal_rank_fusion: the returned list
    fusion,         \* "idle", "pending" or "done"
    store,          \* what the database holds for the query: [fts, vec, rows]
    has_vec,        \* the global _has_vec
    request,        \* search_docs: [query, limit, mode, source_filter]
    response,       \* search_docs: [status, entry, signals, combined, results]
    tree,           \* build_index: the Markdown files under source_dir, path -> content
    unreadable,     \* the files of the tree that cannot be read
    args,           \* build_index: [chunk_size, chunk_overlap, embeddings]
    vec_table,      \* whether the database has the chunks_vec table
    committed,      \* the database as committed: [chunks, vec, sources]
    working,        \* the database as the indexer's connection sees it
    ipc,            \* main: [step, todo, chunks, hash], the position in the loop
    at_start,       \* the committed database when the run started
    processed,      \* the paths the current run has processed (files_processed)
    chunks_tbl,     \* the rows of the chunks table, each with its rowid
    fts_idx,        \* the entries of the full-text index chunks_fts: [rowid, term]
    lookup,         \* the call made on the store: [op, arg]
    answer          \* what the call returned

chunkerVars == <<text, chunk_size, chunk_overlap, raw, out, outcome>>
fileVars == <<doc, relative_path, sections, all_chunks, phase>>

fusionVars == <<results_lists, rrf_k, fused, fusion>>
searchVars == <<store, has_vec, request, response>>

indexVars == <<tree, unreadable, args, vec_table, committed, working, ipc,
               at_start, processed>>

storeVars == <<chunks_tbl, fts_idx, lookup, answer>>

vars == <<chunkerVars, fileVars, fusionVars, searchVars, indexVars, storeVars>>

----------------------------------------------------------------------------
(* Bounds of the model.                                                    *)

MaxTextLen == 7     \* chunk_text: the longest text
MaxChunkSize == 4   \* chunk_text: the largest chunk_size
MaxDocLen == 6      \* the longest document spelled out character by character
MaxLines == 5       \* the most lines of a document put together from DocLines
MaxFileSize == 3    \* process_file: the largest chunk_size
MaxLists == 3       \* reciprocal_rank_fusion: the most ranked lists
MaxLimit == 3       \* search_docs: the largest limit

----------------------------------------------------------------------------
(* Characters and Python string primitives.                                *)

NL == "\n"
SP == " "

\* str.strip() and the regex class \s: the whitespace characters.
Whitespace == {SP, NL}

\* The character class [.!?] of the sentence pattern.
SentenceEnd == {".", "!", "?"}

Min(a, b) == IF a <= b THEN a ELSE b
Max(a, b) == IF a >= b THEN a ELSE b

\* Python's clamping of a slice bound k for a sequence of length n.
PyIdx(k, n) == IF k < 0 THEN Max(k + n, 0) ELSE Min(k, n)

\* s[i:j]
PySlice(s, i, j) ==
    LET lo == PyIdx(i, Len(s))
        hi == PyIdx(j, Len(s))
    IN  IF lo >= hi THEN <<>> ELSE SubSeq(s, lo + 1, hi)

RECURSIVE LStrip(_)
LStrip(s) ==
    IF s = <<>> THEN <<>>
    ELSE IF Head(s) \in Whitespace THEN LStrip(Tail(s)) ELSE s

RECURSIVE RStrip(_)
RStrip(s) ==
    IF s = <<>> THEN <<>>
    ELSE IF s[Len(s)] \in Whitespace THEN RStrip(SubSeq(s, 1, Len(s) - 1)) ELSE s

\* str.strip()
Strip(s) == RStrip(LStrip(s))

\* End (exclusive, 1-based) of the run of characters of `set` that starts at i.
RECURSIVE RunEnd(_, _, _)
RunEnd(s, i, set) ==
    IF i <= Len(s) /\ s[i] \in set THEN RunEnd(s, i + 1, set) ELSE i

\* re.split(r"\n\n+", s): the pieces between maximal runs of two or more
\* newlines; `from` is where the current piece starts, i the scan position.
RECURSIVE SplitParagraphsFrom(_, _, _)
SplitParagraphsFrom(s, from, i) ==
    IF i > Len(s) THEN <<SubSeq(s, from, Len(s))>>
    ELSE IF s[i] = NL /\ i < Len(s) /\ s[i + 1] = NL
         THEN LET e == RunEnd(s, i, {NL})
              IN  <<SubSeq(s, from, i - 1)>> \o SplitParagraphsFrom(s, e, e)
         ELSE SplitParagraphsFrom(s, from, i + 1)

SplitParagraphs(s) == SplitParagraphsFrom(s, 1, 1)

\* re.split(r"(?<=[.!?])\s+", s): the pieces between whitespace runs that
\* directly follow a sentence-ending character.
RECURSIVE SplitSentencesFrom(_, _, _)
SplitSentencesFrom(s, from, i) ==
    IF i > Len(s) THEN <<SubSeq(s, from, Len(s))>>
    ELSE IF i > 1 /\ s[i] \in Whitespace /\ s[i - 1] \in SentenceEnd
         THEN LET e == RunEnd(s, i, Whitespace)
              IN  <<SubSeq(s, from, i - 1)>> \o SplitSentencesFrom(s, e, e)
         ELSE SplitSentencesFrom(s, from, i + 1)

SplitSentences(s) == SplitSentencesFrom(s, 1, 1)

----------------------------------------------------------------------------
(* chunk_text.  A raw chunk is recorded as [s, off]: s is the string the   *)
(* code appends to `chunks`, and off is the offset i of the range() loop   *)
(* when the chunk is a window of the hard character split, -1 otherwise.   *)

Soft(s) == [s |-> s, off |-> -1]

\* for i in range(0, n, step): chunks.append(sent[i : i + chunk_size]),
\* for step > 0.
RECURSIVE HardWindows(_, _, _, _)
HardWindows(sent, i, step, size) ==
    IF i >= Len(sent) THEN <<>>
    ELSE <<[s |-> PySlice(sent, i, i + size), off |-> i]>>
         \o HardWindows(sent, i + step, step, size)

\* The hard split of one sentence: range() raises ValueError on a zero step
\* and is empty on a negative one.
HardSplit(sent, size, overlap) ==
    LET step == size - overlap
    IN  IF step = 0 THEN [err |-> TRUE, chunks |-> <<>>]
        ELSE IF step < 0 THEN [err |-> FALSE, chunks |-> <<>>]
        ELSE [err |-> FALSE, chunks |-> HardWindows(sent, 0, step, size)]

\* SentenceStep with the flush of the running buffer forgotten before a hard
\* split.
SentenceStep_DropFlush(st, sent, size, overlap) ==
    IF st.err THEN st
    ELSE IF Len(st.cur) + Len(sent) + 1 <= size
    THEN [st EXCEPT !.cur = IF st.cur # <<>> THEN st.cur \o <<SP>> \o sent ELSE sent]
    ELSE IF Len(sent) > size
         THEN LET h == HardSplit(sent, size, overlap)
              IN  [err |-> h.err, chunks |-> st.chunks \o h.chunks, cur |-> <<>>]
         ELSE [err |-> FALSE,
               chunks |-> IF st.cur # <<>> THEN Append(st.chunks, Soft(st.cur))
                          ELSE st.chunks,
               cur |-> sent]

\* One iteration of the loop over sentences; st = [err, chunks, cur].
SentenceStep(st, sent, size, overlap) ==
    IF st.err THEN st
    ELSE IF Len(st.cur) + Len(sent) + 1 <= size
    THEN [st EXCEPT !.cur = IF st.cur # <<>> THEN st.cur \o <<SP>> \o sent ELSE sent]
    ELSE LET flushed == IF st.cur # <<>> THEN Append(st.chunks, Soft(st.cur))
                        ELSE st.chunks
         IN  IF Len(sent) > size
             THEN LET h == HardSplit(sent, size, overlap)
                  IN  [err |-> h.err, chunks |-> flushed \o h.chunks, cur |-> <<>>]
             ELSE [err |-> FALSE, chunks |-> flushed, cur |-> sent]

RECURSIVE SentenceLoop(_, _, _, _)
SentenceLoop(st, sentences, size, overlap) ==
    IF sentences = <<>> THEN st
    ELSE SentenceLoop(SentenceStep(st, Head(sentences), size, overlap),
                      Tail(sentences), size, overlap)

\* ParagraphStep with the 2-character joiner left out of the budget test.
ParagraphStep_NoJoinerBudget(st, p, size, overlap) ==
    LET para == Strip(p)
    IN  IF st.err \/ para = <<>> THEN st
        ELSE IF Len(st.cur) + Len(para) <= size
        THEN [st EXCEPT !.cur = IF st.cur # <<>> THEN st.cur \o <<NL, NL>> \o para
                                ELSE para]
        ELSE LET flushed == IF st.cur # <<>> THEN Append(st.chunks, Soft(st.cur))
                            ELSE st.chunks
             IN  IF Len(para) > size
                 THEN SentenceLoop([err |-> FALSE, chunks |-> flushed, cur |-> <<>>],
                                   SplitSentences(para), size, overlap)
                 ELSE [err |-> FALSE, chunks |-> flushed, cur |-> para]

\* One iteration of the loop over paragraphs.
ParagraphStep(st, p, size, overlap) ==
    LET para == Strip(p)
    IN  IF st.err \/ para = <<>> THEN st
        ELSE IF Len(st.cur) + Len(para) + 2 <= size
        THEN [st EXCEPT !.cur = IF st.cur # <<>> THEN st.cur \o <<NL, NL>> \o para
                                ELSE para]
        ELSE LET flushed == IF st.cur # <<>> THEN Append(st.chunks, Soft(st.cur))
                            ELSE st.chunks
             IN  IF Len(para) > size
                 THEN SentenceLoop([err |-> FALSE, chunks |-> flushed, cur |-> <<>>],
                                   SplitSentences(para), size, overlap)
                 ELSE [err |-> FALSE, chunks |-> flushed, cur |-> para]

RECURSIVE ParagraphLoop(_, _, _, _)
ParagraphLoop(st, paragraphs, size, overlap) ==
    IF paragraphs = <<>> THEN st
    ELSE ParagraphLoop(ParagraphStep(st, Head(paragraphs), size, overlap),
                       Tail(paragraphs), size, overlap)

\* RawChunks with the single-chunk test `len(text) < chunk_size`.
RawChunks_StrictFit(t, size, overlap) ==
    IF t = <<>> \/ Strip(t) = <<>> THEN [err |-> FALSE, chunks |-> <<>>]
    ELSE IF Len(t) < size THEN [err |-> FALSE, chunks |-> <<Soft(t)>>]
    ELSE LET st == ParagraphLoop([err |-> FALSE, chunks |-> <<>>, cur |-> <<>>],
                                 SplitParagraphs(t), size, overlap)
         IN  [err |-> st.err,
              chunks |-> IF st.cur # <<>> THEN Append(st.chunks, Soft(st.cur))
                         ELSE st.chunks]

\* `chunks` when the overlap pass is reached (lines 39-79).
RawChunks(t, size, overlap) ==
    IF t = <<>> \/ Strip(t) = <<>> THEN [err |-> FALSE, chunks |-> <<>>]
    ELSE IF Len(t) <= size THEN [err |-> FALSE, chunks |-> <<Soft(t)>>]
    ELSE LET st == ParagraphLoop([err |-> FALSE, chunks |-> <<>>, cur |-> <<>>],
                                 SplitParagraphs(t), size, overlap)
         IN  [err |-> st.err,
              chunks |-> IF st.cur # <<>> THEN Append(st.chunks, Soft(st.cur))
                         ELSE st.chunks]

\* prev_chunk[-chunk_overlap:] if len(prev_chunk) > chunk_overlap else prev_chunk
PrevEnd(prev_chunk, overlap) ==
    IF Len(prev_chunk) > overlap THEN PySlice(prev_chunk, -overlap, Len(prev_chunk))
    ELSE prev_chunk

\* The overlap pass taking the tail of the already overlapped predecessor
\* (a chained overlap).
RECURSIVE AddOverlap_Chained(_, _)
AddOverlap_Chained(chunks, overlap) ==
    IF overlap > 0 /\ Len(chunks) > 1
    THEN LET n == Len(chunks)
             before == AddOverlap_Chained(SubSeq(chunks, 1, n - 1), overlap)
             prev == IF n = 2 THEN chunks[1] ELSE before[n - 1]
         IN  IF n = 2 THEN <<chunks[1], PrevEnd(prev, overlap) \o <<SP>> \o chunks[2]>>
             ELSE Append(before, PrevEnd(prev, overlap) \o <<SP>> \o chunks[n])
    ELSE chunks

\* The overlap pass (lines 81-90) over the strings of the raw chunks.
AddOverlap(chunks, overlap) ==
    IF overlap > 0 /\ Len(chunks) > 1
    THEN [i \in 1..Len(chunks) |->
            IF i = 1 THEN chunks[1]
            ELSE PrevEnd(chunks[i - 1], overlap) \o <<SP>> \o chunks[i]]
    ELSE chunks

Strings(chunks) == [i \in 1..Len(chunks) |-> chunks[i].s]

\* chunk_text(text, chunk_size, chunk_overlap): [err, raw, chunks].  The
\* early return of lines 42-43 skips the overlap pass, which is the identity
\* on a single chunk.
chunk_text(t, size, overlap) ==
    LET r == RawChunks(t, size, overlap)
    IN  [err |-> r.err, raw |-> r.chunks,
         chunks |-> IF r.err THEN <<>> ELSE AddOverlap(Strings(r.chunks), overlap)]

----------------------------------------------------------------------------
(* parse_markdown_sections.  Offsets are Python's: 0-based, ends exclusive. *)
(* A title is <<>> for None and <<t>> for the string t.  A section is       *)
(* recorded as [title, body, at, upto]: (title, body) is the tuple the code *)
(* appends, and text[at:upto] is the slice whose strip() is the body.       *)

MaxHeadingLevel == 6

NoTitle == <<>>
SomeTitle(t) == <<t>>

\* The 1-based position of the end of the line that holds position i: that of
\* the next newline, or Len(s) + 1.
RECURSIVE LineEnd(_, _)
LineEnd(s, i) == IF i > Len(s) \/ s[i] = NL THEN i ELSE LineEnd(s, i + 1)

\* The match of ^(#{1,6})\s+(.+)$ that starts at the 1-based position i, a
\* line start: [ok, g2 (1-based start of group 2), stop (1-based, exclusive)].
\* \s+ is greedy and also takes newlines; it gives characters back only when
\* the whitespace runs to the end of the text, down to the last character of
\* the run that "." can match.
HeaderAt(s, i) ==
    LET h == RunEnd(s, i, {"#"})
        none == [ok |-> FALSE, g2 |-> 0, stop |-> 0]
    IN  IF h - i < 1 \/ h - i > MaxHeadingLevel \/ h > Len(s) THEN none
        ELSE IF s[h] \notin Whitespace THEN none
        ELSE LET e == RunEnd(s, h, Whitespace)
                 back == {k \in (h + 1)..Len(s) : s[k] # NL}
             IN  IF e <= Len(s) THEN [ok |-> TRUE, g2 |-> e, stop |-> LineEnd(s, e)]
                 ELSE IF back = {} THEN none
                 ELSE LET k == CHOOSE x \in back : \A y \in back : y <= x
                      IN  [ok |-> TRUE, g2 |-> k, stop |-> LineEnd(s, k)]

\* header_pattern.finditer(text) from the 1-based position p on: the matches
\* as [start, end, g2, title]: match.start(), match.end(), match.start(2)
\* and match.group(2).strip().
RECURSIVE HeaderMatchesFrom(_, _)
HeaderMatchesFrom(s, p) ==
    IF p > Len(s) THEN <<>>
    ELSE LET m == IF p = 1 \/ s[p - 1] = NL THEN HeaderAt(s, p)
                  ELSE [ok |-> FALSE, g2 |-> 0, stop |-> 0]
         IN  IF m.ok
             THEN <<[start |-> p - 1, end |-> m.stop - 1, g2 |-> m.g2 - 1,
                     title |-> Strip(SubSeq(s, m.g2, m.stop - 1))]>>
                  \o HeaderMatchesFrom(s, m.stop)
             ELSE HeaderMatchesFrom(s, p + 1)

HeaderMatches(s) == HeaderMatchesFrom(s, 1)

\* The section appended for text[from:to] under last_title, if it is not blank.
SectionOf(s, last_title, from, to) ==
    LET content == Strip(PySlice(s, from, to))
    IN  IF content # <<>>
        THEN <<[title |-> last_title, body |-> content, at |-> from, upto |-> to]>>
        ELSE <<>>

\* SectionLoop with last_title set before the content in front of the
\* heading is appended.
RECURSIVE SectionLoop_TitleFirst(_, _, _)
SectionLoop_TitleFirst(s, st, matches) ==
    IF matches = <<>> THEN st
    ELSE LET m == Head(matches)
             added == IF m.start > st.last_end
                      THEN SectionOf(s, SomeTitle(m.title), st.last_end, m.start)
                      ELSE <<>>
         IN  SectionLoop_TitleFirst(s,
                 [sections |-> st.sections \o added,
                  last_end |-> m.end,
                  last_title |-> SomeTitle(m.title)],
                 Tail(matches))

\* The loop over the matches (lines 18-24); st = [sections, last_end, last_title].
RECURSIVE SectionLoop(_, _, _)
SectionLoop(s, st, matches) ==
    IF matches = <<>> THEN st
    ELSE LET m == Head(matches)
             added == IF m.start > st.last_end
                      THEN SectionOf(s, st.last_title, st.last_end, m.start)
                      ELSE <<>>
         IN  SectionLoop(s,
                 [sections |-> st.sections \o added,
                  last_end |-> m.end,
                  last_title |-> SomeTitle(m.title)],
                 Tail(matches))

\* The sections with the text after the last heading left out.
TrailingSection_Dropped(s, st) == st.sections

\* Lines 26-29: the sections once the text after the last heading is added.
TrailingSection(s, st) ==
    IF st.last_end < Len(s)
    THEN st.sections \o SectionOf(s, st.last_title, st.last_end, Len(s))
    ELSE st.sections

\* parse_markdown_sections(text)
parse_markdown_sections(s) ==
    LET st == SectionLoop(s, [sections |-> <<>>, last_end |-> 0, last_title |-> NoTitle],
                          HeaderMatches(s))
        secs == TrailingSection(s, st)
    IN  IF secs = <<>> /\ Strip(s) # <<>>
        THEN <<[title |-> NoTitle, body |-> Strip(s), at |-> 0, upto |-> Len(s)]>>
        ELSE secs

----------------------------------------------------------------------------
(* process_file.                                                           *)

Digit(d) == CASE d = 0 -> "0" [] d = 1 -> "1" [] d = 2 -> "2" [] d = 3 -> "3"
              [] d = 4 -> "4" [] d = 5 -> "5" [] d = 6 -> "6" [] d = 7 -> "7"
              [] d = 8 -> "8" [] d = 9 -> "9"

\* str(n) for n >= 0, as used by the f-string of the id.
RECURSIVE Decimal(_)
Decimal(n) == IF n < 10 THEN <<Digit(n)>> ELSE Decimal(n \div 10) \o <<Digit(n % 10)>>

\* The records appended for one section (lines 108-118), numbered from
\* chunk_index on.
ChunkRecords(rel, title, text_chunks, chunk_index) ==
    [j \in 1..Len(text_chunks) |->
        [id |-> rel \o <<":">> \o Decimal(chunk_index + j - 1),
         source |-> rel,
         title |-> title,
         content |-> text_chunks[j],
         chunk_index |-> chunk_index + j - 1]]

\* SectionRecords with the counter restarted for every section.
RECURSIVE SectionRecords_Restart(_, _, _, _, _)
SectionRecords_Restart(rel, secs, size, overlap, acc) ==
    IF secs = <<>> \/ acc.err THEN acc
    ELSE LET c == chunk_text(Head(secs).body, size, overlap)
         IN  SectionRecords_Restart(rel, Tail(secs), size, overlap,
                 [err |-> c.err,
                  all_chunks |-> acc.all_chunks
                      \o ChunkRecords(rel, Head(secs).title, c.chunks, 0),
                  chunk_index |-> Len(c.chunks)])

\* The loop over the sections (lines 105-118); acc = [err, all_chunks,
\* chunk_index].
RECURSIVE SectionRecords(_, _, _, _, _)
SectionRecords(rel, secs, size, overlap, acc) ==
    IF secs = <<>> \/ acc.err THEN acc
    ELSE LET c == chunk_text(Head(secs).body, size, overlap)
         IN  SectionRecords(rel, Tail(secs), size, overlap,
                 [err |-> c.err,
                  all_chunks |-> acc.all_chunks
                      \o ChunkRecords(rel, Head(secs).title, c.chunks,
                                      acc.chunk_index),
                  chunk_index |-> acc.chunk_index + Len(c.chunks)])

\* process_file: the records of the file with content t at rel.
process_file(t, rel, size, overlap) ==
    SectionRecords(rel, parse_markdown_sections(t), size, overlap,
                   [err |-> FALSE, all_chunks |-> <<>>, chunk_index |-> 0])

----------------------------------------------------------------------------
(* reciprocal_rank_fusion.  A score is the exact rational [n, d] in lowest *)
(* terms that the float stands for; a ranked list is a sequence of         *)
(* [id, score]; the dict `scores` is the sequence of its items in          *)
(* insertion order.                                                        *)

RRF_K == 60

RECURSIVE Gcd(_, _)
Gcd(a, b) == IF b = 0 THEN a ELSE Gcd(b, a % b)

Rat(n, d) == [n |-> n \div Gcd(n, d), d |-> d \div Gcd(n, d)]

\* The least common multiple, over which two scores are added and compared.
Lcm(a, b) == (a \div Gcd(a, b)) * b

RatAdd(a, b) ==
    LET m == Lcm(a.d, b.d) IN Rat(a.n * (m \div a.d) + b.n * (m \div b.d), m)

RatLess(a, b) ==
    LET m == Lcm(a.d, b.d) IN a.n * (m \div a.d) < b.n * (m \div b.d)

\* scores.get(chunk_id, 0)
DictGet(items, id) ==
    IF \E i \in 1..Len(items) : items[i].id = id
    THEN items[CHOOSE i \in 1..Len(items) : items[i].id = id].score
    ELSE Rat(0, 1)

\* scores[chunk_id] = v
DictSet(items, id, v) ==
    IF \E i \in 1..Len(items) : items[i].id = id
    THEN [i \in 1..Len(items) |-> IF items[i].id = id THEN [id |-> id, score |-> v]
                                  ELSE items[i]]
    ELSE Append(items, [id |-> id, score |-> v])

\* RankScore with the rank counted from one.
RankScore_OneBased(k, rank) == Rat(1, k + rank + 2)

\* The contribution 1.0 / (k + rank + 1) of the 0-based rank.
RankScore(k, rank) == Rat(1, k + rank + 1)

\* The inner loop storing each contribution instead of adding it to the
\* score the id already has.
RECURSIVE FuseList_Overwrite(_, _, _, _)
FuseList_Overwrite(scores, results, from, k) ==
    IF from > Len(results) THEN scores
    ELSE FuseList_Overwrite(DictSet(scores, results[from].id, RankScore(k, from - 1)),
                            results, from + 1, k)

\* The inner loop (line 164-165) over results[from..], rank being from - 1.
RECURSIVE FuseList(_, _, _, _)
FuseList(scores, results, from, k) ==
    IF from > Len(results) THEN scores
    ELSE FuseList(DictSet(scores, results[from].id,
                          RatAdd(DictGet(scores, results[from].id), RankScore(k, from - 1))),
                  results, from + 1, k)

RECURSIVE FuseLists(_, _, _)
FuseLists(scores, lists, k) ==
    IF lists = <<>> THEN scores
    ELSE FuseLists(FuseList(scores, Head(lists), 1, k), Tail(lists), k)

\* A descending sort that is not stable: an item goes before those of equal
\* score that precede it.
RECURSIVE SortedByScoreDesc_Unstable(_)
SortedByScoreDesc_Unstable(items) ==
    IF items = <<>> THEN <<>>
    ELSE LET n == Len(items)
             before == SortedByScoreDesc_Unstable(SubSeq(items, 1, n - 1))
             x == items[n]
             lower == {i \in 1..Len(before) : ~RatLess(x.score, before[i].score)}
             at == IF lower = {} THEN Len(before) + 1
                   ELSE CHOOSE i \in lower : \A j \in lower : i <= j
         IN  SubSeq(before, 1, at - 1) \o <<x>> \o SubSeq(before, at, Len(before))

\* sorted(items, key=score, reverse=True): a stable sort, equal scores keep
\* their order.
RECURSIVE SortedByScoreDesc(_)
SortedByScoreDesc(items) ==
    IF items = <<>> THEN <<>>
    ELSE LET n == Len(items)
             before == SortedByScoreDesc(SubSeq(items, 1, n - 1))
             x == items[n]
             lower == {i \in 1..Len(before) : RatLess(before[i].score, x.score)}
             at == IF lower = {} THEN Len(before) + 1
                   ELSE CHOOSE i \in lower : \A j \in lower : i <= j
         IN  SubSeq(before, 1, at - 1) \o <<x>> \o SubSeq(before, at, Len(before))

reciprocal_rank_fusion(lists, k) == SortedByScoreDesc(FuseLists(<<>>, lists, k))

----------------------------------------------------------------------------
(* The search primitives and search_docs.  The store is what the SQL       *)
(* statements read: store.fts is the keyword ranking of the query's matches *)
(* ([id, score], best first), store.vec the stored vectors by distance to   *)
(* the query's embedding ([id, distance], nearest first), store.rows the   *)
(* ids present in the chunks table.                                        *)

VALID_SEARCH_MODES == {"keyword", "semantic", "hybrid"}

\* rows[:n] and SQL's LIMIT n, for n >= 0.
Take(rows, n) == SubSeq(rows, 1, Min(n, Len(rows)))

\* db.search_fts: a blank query returns [] before the index is read.
search_fts(st, query, limit) ==
    IF query = "blank" THEN <<>> ELSE Take(st.fts, limit)

\* db.search_vec; fails says that embedding or the vector query raised.
search_vec(st, vec_on, fails, limit) ==
    IF ~vec_on \/ fails THEN <<>>
    ELSE LET hits == Take(st.vec, limit)
         IN  [i \in 1..Len(hits) |->
                 [id |-> hits[i].id, score |-> Rat(1, 1 + hits[i].distance)]]

\* mcp_server.search_fts: the query goes to MATCH as it is, and FTS5 rejects
\* a blank one with an OperationalError.
mcp_search_fts(st, query, limit) ==
    IF query = "blank" THEN [raised |-> TRUE, rows |-> <<>>]
    ELSE [raised |-> FALSE, rows |-> Take(st.fts, limit)]

\* Signals with the semantic signal invoked whether or not the vector index
\* is available.
Signals_VecUnguarded(st, r, vec_on, fails) ==
    LET fts_called == r.mode \in {"keyword", "hybrid"}
        fts == IF fts_called THEN search_fts(st, r.query, r.limit) ELSE <<>>
        vec_called == r.mode \in {"semantic", "hybrid"}
        vec == IF vec_called THEN search_vec(st, vec_on, fails, r.limit) ELSE <<>>
    IN  [fts_called |-> fts_called, fts |-> fts, vec_called |-> vec_called, vec |-> vec]

\* Lines 183-188: what the signals return, <<>> for one that is not invoked.
Signals(st, r, vec_on, fails) ==
    LET fts_called == r.mode \in {"keyword", "hybrid"}
        fts == IF fts_called THEN search_fts(st, r.query, r.limit) ELSE <<>>
        vec_called == r.mode \in {"semantic", "hybrid"} /\ vec_on
        vec == IF vec_called THEN search_vec(st, vec_on, fails, r.limit) ELSE <<>>
    IN  [fts_called |-> fts_called, fts |-> fts, vec_called |-> vec_called, vec |-> vec]

\* results_lists with the list of every signal appended, empty or not.
ResultsLists_KeepEmpty(sig) == <<sig.fts, sig.vec>>

\* results_lists: the lists of the signals that are not empty.
ResultsLists(sig) ==
    (IF sig.fts # <<>> THEN <<sig.fts>> ELSE <<>>)
    \o (IF sig.vec # <<>> THEN <<sig.vec>> ELSE <<>>)

\* Combined with every list fused, a single one too.
Combined_AlwaysFused(lists, limit) ==
    IF lists = <<>> THEN <<>>
    ELSE Take(reciprocal_rank_fusion(lists, RRF_K), limit)

\* Lines 190-196: the final ranking.
Combined(lists, limit) ==
    IF lists = <<>> THEN <<>>
    ELSE IF Len(lists) = 1 THEN Take(lists[1], limit)
    ELSE Take(reciprocal_rank_fusion(lists, RRF_K), limit)

\* The row of the chunks table with the given id.
Row(id) ==
    CASE id = "a:0" -> [source |-> <<"a">>, chunk_index |-> 0]
      [] id = "a:1" -> [source |-> <<"a">>, chunk_index |-> 1]
      [] id = "b:0" -> [source |-> <<"b">>, chunk_index |-> 0]

\* `sub in s` for strings.
Contains(s, sub) ==
    \E i \in 0..(Len(s) - Len(sub)) : SubSeq(s, i + 1, i + Len(sub)) = sub

\* The ids in the order of the chunks table.
TableOrder == <<"a:0", "a:1", "b:0">>

\* FetchRecords building the records from the rows in the order the query
\* returns them instead of the order of the ranking.
FetchRecords_RowOrder(st, combined) ==
    LET found == SelectSeq(TableOrder,
                     LAMBDA id : id \in st.rows /\ \E i \in 1..Len(combined) : combined[i].id = id)
    IN  [i \in 1..Len(found) |->
            [chunk_id |-> found[i],
             source |-> Row(found[i]).source,
             chunk_index |-> Row(found[i]).chunk_index,
             score |-> DictGet(combined, found[i])]]

\* Lines 198-221: the records of the ranked ids the store resolves, in
\* ranking order, each with the score of its id.
FetchRecords(st, combined) ==
    LET found == SelectSeq(combined, LAMBDA c : c.id \in st.rows)
    IN  [i \in 1..Len(found) |->
            [chunk_id |-> found[i].id,
             source |-> Row(found[i].id).source,
             chunk_index |-> Row(found[i].id).chunk_index,
             score |-> DictGet(combined, found[i].id)]]

NoSignals == [fts_called |-> FALSE, fts |-> <<>>, vec_called |-> FALSE, vec |-> <<>>]

\* db.search_docs: [raised, signals, combined, results].
search_docs(st, r, vec_on, fails) ==
    IF r.mode \notin VALID_SEARCH_MODES
    THEN [raised |-> TRUE, signals |-> NoSignals, combined |-> <<>>, results |-> <<>>]
    ELSE LET sig == Signals(st, r, vec_on, fails)
             combined == Combined(ResultsLists(sig), r.limit)
             results == FetchRecords(st, combined)
         IN  [raised |-> FALSE, signals |-> sig, combined |-> combined,
              results |-> IF r.source_filter # <<>>
                          THEN SelectSeq(results,
                                   LAMBDA x : Contains(x.source, r.source_filter))
                          ELSE results]

\* mcp_server.search_docs_impl: the mode is not validated, the server's own
\* search_fts is used, and there is no source filter.
search_docs_impl(st, r, vec_on, fails) ==
    LET fts_called == r.mode \in {"keyword", "hybrid"}
        f == IF fts_called THEN mcp_search_fts(st, r.query, r.limit)
             ELSE [raised |-> FALSE, rows |-> <<>>]
        vec_called == r.mode \in {"semantic", "hybrid"} /\ vec_on
        vec == IF vec_called THEN search_vec(st, vec_on, fails, r.limit) ELSE <<>>
        sig == [fts_called |-> fts_called, fts |-> f.rows,
                vec_called |-> vec_called, vec |-> vec]
        combined == Combined(ResultsLists(sig), r.limit)
    IN  IF f.raised
        THEN [raised |-> TRUE, signals |-> [NoSignals EXCEPT !.fts_called = TRUE],
              combined |-> <<>>, results |-> <<>>]
        ELSE [raised |-> FALSE, signals |-> sig, combined |-> combined,
              results |-> FetchRecords(st, combined)]

----------------------------------------------------------------------------
(* build_index: the indexer.  A database is [chunks, vec, sources]: the    *)
(* rows of the chunks table, the ids held by chunks_vec, and the rows      *)
(* [path, hash] of the sources table.  build_index.py has its own copies   *)
(* of parse_markdown_sections, chunk_text and process_file;                *)
(* parse_markdown_sections is the same function, chunk_text lacks the      *)
(* blank-text check, process_file keeps the path as the platform spells it.*)

\* build_index.chunk_text: a text that fits is returned whole, blank or not.
bi_chunk_text(t, size, overlap) ==
    IF Len(t) <= size
    THEN [err |-> FALSE, raw |-> <<[s |-> t, off |-> -1]>>, chunks |-> <<t>>]
    ELSE chunk_text(t, size, overlap)

\* The loop of build_index.process_file over the sections.
RECURSIVE bi_SectionRecords(_, _, _, _, _)
bi_SectionRecords(rel, secs, size, overlap, acc) ==
    IF secs = <<>> \/ acc.err THEN acc
    ELSE LET c == bi_chunk_text(Head(secs).body, size, overlap)
         IN  bi_SectionRecords(rel, Tail(secs), size, overlap,
                 [err |-> c.err,
                  all_chunks |-> acc.all_chunks
                      \o ChunkRecords(rel, Head(secs).title, c.chunks,
                                      acc.chunk_index),
                  chunk_index |-> acc.chunk_index + Len(c.chunks)])

\* build_index.process_file on the file at rel with content t.
bi_process_file(t, rel, size, overlap) ==
    bi_SectionRecords(rel, parse_markdown_sections(t), size, overlap,
                      [err |-> FALSE, all_chunks |-> <<>>, chunk_index |-> 0])

\* file_hash: SHA-256 of the content, taken to be free of collisions.
file_hash(t) == [sha256 |-> t]

\* s LIKE pattern: % stands for any run of characters, _ for any one.
RECURSIVE Like(_, _)
Like(s, pattern) ==
    IF pattern = <<>> THEN s = <<>>
    ELSE IF Head(pattern) = "%"
         THEN Like(s, Tail(pattern)) \/ (s # <<>> /\ Like(Tail(s), pattern))
    ELSE /\ s # <<>>
         /\ Head(pattern) = "_" \/ Head(pattern) = Head(s)
         /\ Like(Tail(s), Tail(pattern))

EmptyDb == [chunks |-> {}, vec |-> {}, sources |-> {}]

\* SELECT hash FROM sources WHERE path = ?: the set of the hashes found.
RecordedHash(db, rel) == {r.hash : r \in {x \in db.sources : x.path = rel}}

\* DeleteOld with the rows of chunks left where they are.
DeleteOld_KeepRows(db, rel, has_table) ==
    [db EXCEPT !.vec = IF has_table THEN {id \in @ : ~Like(id, rel \o <<":", "%">>)}
                       ELSE @]

\* Lines 388-393: DELETE FROM chunks WHERE source = ?, then DELETE FROM
\* chunks_vec WHERE id LIKE "<path>:%", whose OperationalError is passed
\* over when the table does not exist.
DeleteOld(db, rel, has_table) ==
    [db EXCEPT !.chunks = {r \in @ : r.source # rel},
               !.vec = IF has_table THEN {id \in @ : ~Like(id, rel \o <<":", "%">>)}
                       ELSE @]

\* Lines 257-261: INSERT OR REPLACE INTO chunks, a row taking the place of
\* the one with its id.
InsertChunks(db, chunks) ==
    LET ids == {chunks[i].id : i \in 1..Len(chunks)}
    IN  [db EXCEPT !.chunks = {r \in @ : r.id \notin ids}
                                 \cup {chunks[i] : i \in 1..Len(chunks)}]

\* Lines 264-283: the embeddings of the first n chunks reach chunks_vec
\* before the try block is left (all of them unless something raises).
InsertEmbeddings(db, chunks, n) ==
    [db EXCEPT !.vec = @ \cup {chunks[i].id : i \in 1..n}]

\* Lines 408-410: INSERT OR REPLACE INTO sources.
RecordHash(db, rel, hash) ==
    [db EXCEPT !.sources = {r \in @ : r.path # rel} \cup {[path |-> rel, hash |-> hash]}]

\* SELECT ... FROM chunks WHERE source = ?: the rows of the given source.
RowsOf(db, rel) == {r \in db.chunks : r.source = rel}

----------------------------------------------------------------------------
(* The lookups of db.py and the full-text triggers of init_database.  A     *)
(* table is the set of its rows [rowid, id, source, title, content,         *)
(* chunk_index]; None is <<>> and a value v that may be None is <<v>>.      *)

\* The code point of a character of an id.
Ord(c) ==
    CASE c = "0" -> 48 [] c = "1" -> 49 [] c = "2" -> 50 [] c = "3" -> 51
      [] c = "4" -> 52 [] c = "5" -> 53 [] c = "6" -> 54 [] c = "7" -> 55
      [] c = "8" -> 56 [] c = "9" -> 57 [] c = ":" -> 58 [] c = "_" -> 95
      [] c = "a" -> 97 [] c = "b" -> 98 [] c = "c" -> 99

\* s < t for TEXT values under SQLite's BINARY collation.
RECURSIVE TextLess(_, _)
TextLess(s, t) ==
    IF t = <<>> THEN FALSE
    ELSE IF s = <<>> THEN TRUE
    ELSE IF Head(s) # Head(t) THEN Ord(Head(s)) < Ord(Head(t))
    ELSE TextLess(Tail(s), Tail(t))

\* MIN(id) over the rows of a group.
MinId(rows) ==
    CHOOSE m \in {r.id : r \in rows} : \A r \in rows : ~TextLess(r.id, m)

\* MIN(chunk_index) over the rows of a group.
MinIndex(rows) ==
    CHOOSE m \in {r.chunk_index : r \in rows} : \A r \in rows : m <= r.chunk_index

\* The dict the lookups make of a row.
AsDict(r) ==
    [chunk_id |-> r.id, source |-> r.source, title |-> r.title,
     content |-> r.content, chunk_index |-> r.chunk_index]

\* ORDER BY chunk_index over rows of one source.
RECURSIVE ByChunkIndex(_)
ByChunkIndex(rows) ==
    IF rows = {} THEN <<>>
    ELSE LET first == CHOOSE r \in rows : \A q \in rows : r.chunk_index <= q.chunk_index
         IN  <<first>> \o ByChunkIndex(rows \ {first})

\* get_chunk (db.py:228-246).
get_chunk(T, chunk_id) ==
    LET found == {r \in T : r.id = chunk_id}
    IN  IF found = {} THEN <<>> ELSE <<AsDict(CHOOSE r \in found : TRUE)>>

\* get_context (db.py:295-320): the key "error" exists in the first return
\* only.
get_context(T, chunk_id, n_before, n_after) ==
    LET found == {r \in T : r.id = chunk_id}
    IN  IF found = {}
        THEN [target |-> <<>>, context |-> <<>>, error |-> <<"Chunk not found">>]
        ELSE LET target == CHOOSE r \in found : TRUE
                 rows == ByChunkIndex({r \in T :
                            /\ r.source = target.source
                            /\ r.chunk_index >= Max(0, target.chunk_index - n_before)
                            /\ r.chunk_index <= target.chunk_index + n_after})
             IN  [target |-> <<AsDict(target)>>,
                  context |-> SelectSeq([i \in 1..Len(rows) |-> AsDict(rows[i])],
                                        LAMBDA d : d.chunk_id # chunk_id),
                  error |-> <<>>]

\* get_source without the key "error" in the answer for an unknown path.
get_source_NoError(T, source_path) ==
    LET rows == {r \in T : r.source = source_path}
        sorted == ByChunkIndex(rows)
    IN  [chunks |-> [i \in 1..Len(sorted) |-> AsDict(sorted[i])],
         total |-> Cardinality(rows), error |-> <<>>]

\* get_source (db.py:321-346) with the default offset and limit.
get_source(T, source_path) ==
    LET rows == {r \in T : r.source = source_path}
    IN  IF Cardinality(rows) = 0
        THEN [chunks |-> <<>>, total |-> 0, error |-> <<"Source not found">>]
        ELSE LET sorted == ByChunkIndex(rows)
             IN  [chunks |-> [i \in 1..Len(sorted) |-> AsDict(sorted[i])],
                  total |-> Cardinality(rows), error |-> <<>>]

\* One row of list_sections' query for the group of a title.
SectionEntry(rows) ==
    [title |-> (CHOOSE r \in rows : TRUE).title,
     chunk_id |-> MinId(rows),
     chunk_index |-> MinIndex(rows)]

\* ORDER BY MIN(chunk_index) over the groups.
RECURSIVE ByMinIndex(_)
ByMinIndex(entries) ==
    IF entries = {} THEN <<>>
    ELSE LET first == CHOOSE e \in entries :
                          \A q \in entries : e.chunk_index <= q.chunk_index
         IN  <<first>> \o ByMinIndex(entries \ {first})

\* list_sections (db.py:349-360): GROUP BY title, NULL being a group too.
list_sections(T, source_path) ==
    LET rows == {r \in T : r.source = source_path}
        titles == {r.title : r \in rows}
    IN  ByMinIndex({SectionEntry({r \in rows : r.title = t}) : t \in titles})

\* The rowid SQLite gives a new row: one more than the largest in the table.
NextRowid(T) ==
    IF T = {} THEN 1
    ELSE 1 + (CHOOSE m \in {r.rowid : r \in T} : \A r \in T : r.rowid <= m)

\* The trigger chunks_ai (build_index.py:76-81).
chunks_ai(idx, new) == idx \cup {[rowid |-> new.rowid, term |-> new.content]}

\* The trigger chunks_ad (build_index.py:82-87): the 'delete' command.
chunks_ad(idx, old) == idx \ {[rowid |-> old.rowid, term |-> old.content]}

\* The trigger chunks_au (build_index.py:88-95).
chunks_au(idx, old, new) == chunks_ai(chunks_ad(idx, old), new)

\* The join of search_fts (db.py:130-135) for a query of one term: the ids
\* of the rows whose rowid the index has under the term.
fts_match(T, idx, term) ==
    {r.id : r \in {q \in T : [rowid |-> q.rowid, term |-> term] \in idx}}

----------------------------------------------------------------------------
(* The state machine.  Every component's arguments are drawn in its initial *)
(* states or by the action that makes the call; an action is one call.      *)

Alphabet == {"a", ".", SP, NL}

Texts == UNION {[1..n -> Alphabet] : n \in 0..MaxTextLen}

ChunkerIdle ==
    /\ text = <<>> /\ chunk_size = 1 /\ chunk_overlap = 0
    /\ raw = <<>> /\ out = <<>> /\ outcome = "idle"

FileIdle ==
    /\ doc = <<>> /\ relative_path = <<>>
    /\ sections = <<>> /\ all_chunks = <<>> /\ phase = "idle"

FusionIdle ==
    /\ results_lists = <<>> /\ rrf_k = RRF_K /\ fused = <<>> /\ fusion = "idle"

NoResponse ==
    [status |-> "idle", entry |-> "none", signals |-> NoSignals,
     combined |-> <<>>, results |-> <<>>]

SearchIdle ==
    /\ store = [fts |-> <<>>, vec |-> <<>>, rows |-> {}]
    /\ has_vec = FALSE
    /\ request = [query |-> "blank", limit |-> 1, mode |-> "hybrid", source_filter |-> <<>>]
    /\ response = NoResponse

NoPosition == [step |-> "idle", todo |-> <<>>, chunks |-> <<>>, hash |-> file_hash(<<>>)]

IndexIdle ==
    /\ tree = <<>> /\ unreadable = {}
    /\ args = [chunk_size |-> 1, chunk_overlap |-> 0, embeddings |-> FALSE]
    /\ vec_table = FALSE
    /\ committed = EmptyDb /\ working = EmptyDb /\ at_start = EmptyDb
    /\ ipc = NoPosition
    /\ processed = {}

NoCall == [op |-> "none", arg |-> <<>>]

StoreIdle ==
    /\ chunks_tbl = {} /\ fts_idx = {}
    /\ lookup = NoCall /\ answer = <<>>

ChunkerInit ==
    /\ text \in Texts
    /\ chunk_size \in 1..MaxChunkSize
    /\ chunk_overlap \in 0..(chunk_size + 1)
    /\ raw = <<>>
    /\ out = <<>>
    /\ outcome = "pending"
    /\ FileIdle /\ FusionIdle /\ SearchIdle /\ IndexIdle /\ StoreIdle

ChunkText ==
    /\ outcome = "pending"
    /\ LET r == chunk_text(text, chunk_size, chunk_overlap)
       IN  /\ raw' = r.raw
           /\ out' = r.chunks
           /\ outcome' = IF r.err THEN "raised" ELSE "returned"
    /\ UNCHANGED <<text, chunk_size, chunk_overlap, fileVars, fusionVars, searchVars, indexVars, storeVars>>

ChunkerNext == ChunkText

ChunkerSpec == ChunkerInit /\ [][ChunkerNext]_vars

DocAlphabet == {"#", "a", SP, NL}

DocLines == {<<"#", SP, "a">>, <<"#", "#", SP, "a", "a">>, <<"a">>, <<>>}

RECURSIVE JoinLines(_)
JoinLines(ls) ==
    IF Len(ls) = 1 THEN ls[1] ELSE ls[1] \o <<NL>> \o JoinLines(Tail(ls))

Docs ==
    UNION {[1..n -> DocAlphabet] : n \in 0..MaxDocLen}
    \cup {JoinLines(ls) : ls \in UNION {[1..n -> DocLines] : n \in 1..MaxLines}}

Paths == {<<"a">>, <<"d", "/", "a">>}

FileInit ==
    /\ doc \in Docs
    /\ relative_path = <<>>
    /\ sections = <<>>
    /\ all_chunks = <<>>
    /\ phase = "start"
    /\ ChunkerIdle /\ FusionIdle /\ SearchIdle /\ IndexIdle /\ StoreIdle

ParseMarkdownSections ==
    /\ phase = "start"
    /\ sections' = parse_markdown_sections(doc)
    /\ phase' = "parsed"
    /\ UNCHANGED <<doc, relative_path, all_chunks, chunkerVars, fusionVars, searchVars, indexVars, storeVars>>

ProcessFile ==
    /\ phase = "start"
    /\ \E path \in Paths, size \in 1..MaxFileSize :
         \E overlap \in 0..(size - 1) :
            LET r == process_file(doc, path, size, overlap)
            IN  /\ relative_path' = path
                /\ chunk_size' = size
                /\ chunk_overlap' = overlap
                /\ all_chunks' = r.all_chunks
                /\ phase' = IF r.err THEN "failed" ELSE "processed"
    /\ UNCHANGED <<doc, sections, text, raw, out, outcome, fusionVars, searchVars, indexVars, storeVars>>

FileNext == ParseMarkdownSections \/ ProcessFile

FileSpec == FileInit /\ [][FileNext]_vars

ChunkIds == {"a:0", "a:1", "b:0"}

\* The sequences over S without a repeated element.
Rankings(S) ==
    {q \in UNION {[1..n -> S] : n \in 0..Cardinality(S)} :
        \A i, j \in 1..Len(q) : i # j => q[i] # q[j]}

\* Two ways of giving raw scores to a ranking, both best first.
RawScore(profile, rank) == IF profile = 1 THEN Rat(1, 2) ELSE Rat(9 - rank, 1)

Scored(q, profile) == [i \in 1..Len(q) |-> [id |-> q[i], score |-> RawScore(profile, i - 1)]]

FusionInit ==
    /\ \E profile \in {1, 2} :
          results_lists \in
             {[i \in 1..Len(qs) |-> Scored(qs[i], profile)] :
                 qs \in UNION {[1..n -> Rankings(ChunkIds)] : n \in 0..MaxLists}}
    /\ rrf_k \in {0, 1, RRF_K}
    /\ fused = <<>>
    /\ fusion = "pending"
    /\ ChunkerIdle /\ FileIdle /\ SearchIdle /\ IndexIdle /\ StoreIdle

Fuse ==
    /\ fusion = "pending"
    /\ fused' = reciprocal_rank_fusion(results_lists, rrf_k)
    /\ fusion' = "done"
    /\ UNCHANGED <<results_lists, rrf_k, chunkerVars, fileVars, searchVars, indexVars, storeVars>>

FusionNext == Fuse

FusionSpec == FusionInit /\ [][FusionNext]_vars

\* The stored vectors by distance to the query's embedding.
ByDistance(q) == [i \in 1..Len(q) |-> [id |-> q[i], distance |-> i - 1]]

SearchInit ==
    /\ store \in {[fts |-> Scored(f, 2), vec |-> ByDistance(v), rows |-> ChunkIds \ gone] :
                     f \in Rankings(ChunkIds), v \in Rankings(ChunkIds),
                     gone \in {{}} \cup {{c} : c \in ChunkIds}}
    /\ has_vec \in BOOLEAN
    /\ request \in [query : {"blank", "plain"}, limit : 1..MaxLimit,
                    mode : VALID_SEARCH_MODES \cup {"fuzzy"},
                    source_filter : {<<>>, <<"a">>}]
    /\ response = [NoResponse EXCEPT !.status = "pending"]
    /\ ChunkerIdle /\ FileIdle /\ FusionIdle /\ IndexIdle /\ StoreIdle

Respond(entry, r) ==
    [status |-> IF r.raised THEN "raised" ELSE "returned", entry |-> entry,
     signals |-> r.signals, combined |-> r.combined, results |-> r.results]

SearchDocs ==
    /\ response.status = "pending"
    /\ \E fails \in BOOLEAN :
          response' = Respond("db", search_docs(store, request, has_vec, fails))
    /\ UNCHANGED <<store, has_vec, request, chunkerVars, fileVars, fusionVars, indexVars, storeVars>>

SearchDocsImpl ==
    /\ response.status = "pending"
    /\ request.source_filter = <<>>
    /\ \E fails \in BOOLEAN :
          response' = Respond("mcp_server", search_docs_impl(store, request, has_vec, fails))
    /\ UNCHANGED <<store, has_vec, request, chunkerVars, fileVars, fusionVars, indexVars, storeVars>>

SearchNext == SearchDocs \/ SearchDocsImpl

SearchSpec == SearchInit /\ [][SearchNext]_vars

\* The relative paths of the Markdown files; "_" and "%" are characters a
\* file name may hold.
IndexPaths == {<<"a">>, <<"_">>}

\* The contents a file may have: empty, one chunk, a section under a
\* heading, a word of three characters.
IndexDocs == {<<>>, <<"a">>, <<"#", SP, "a", NL, "a">>, <<"a", "a", "a">>}

Trees == UNION {[S -> IndexDocs] : S \in SUBSET IndexPaths}

\* --chunk-size and --chunk-overlap as given on the command line.
IndexSizes == {<<1, 0>>, <<2, 2>>}

\* The orders in which rglob may list the files of S.
Orders(S) == Rankings(S)

\* A complete run of main over the files in the given order, from the
\* database db; with_vec says whether the embeddings were stored.
RECURSIVE EarlierRun(_, _, _, _, _, _)
EarlierRun(db, order, contents, a, has_table, with_vec) ==
    IF order = <<>> THEN db
    ELSE LET rel == Head(order)
             chunks == bi_process_file(contents[rel], rel, a.chunk_size,
                                       a.chunk_overlap).all_chunks
             deleted == DeleteOld(db, rel, has_table)
             indexed == IF chunks # <<>>
                        THEN InsertEmbeddings(InsertChunks(deleted, chunks), chunks,
                                              IF with_vec THEN Len(chunks) ELSE 0)
                        ELSE deleted
         IN  EarlierRun(RecordHash(indexed, rel, file_hash(contents[rel])),
                        Tail(order), contents, a, has_table, with_vec)

\* The database was built by an earlier run of main over an earlier state of
\* the tree, since when files were added, removed or rewritten; main starts.
IndexInit ==
    /\ \E sz \in IndexSizes, e \in BOOLEAN :
          args = [chunk_size |-> sz[1], chunk_overlap |-> sz[2], embeddings |-> e]
    /\ vec_table \in BOOLEAN
    /\ \E prev \in Trees :
          /\ \A p \in DOMAIN prev :
                ~bi_process_file(prev[p], p, args.chunk_size, args.chunk_overlap).err
          /\ \E order \in {o \in Orders(DOMAIN prev) : Len(o) = Cardinality(DOMAIN prev)} :
                committed = EarlierRun(EmptyDb, order, prev, args, vec_table,
                                       vec_table /\ args.embeddings)
    /\ tree \in Trees
    /\ unreadable \in {{}} \cup {{p} : p \in DOMAIN tree}
    /\ working = committed
    /\ at_start = committed
    /\ processed = {}
    /\ \E order \in {o \in Orders(DOMAIN tree) : Len(o) = Cardinality(DOMAIN tree)} :
          ipc = [NoPosition EXCEPT !.step = "check", !.todo = order]
    /\ ChunkerIdle /\ FileIdle /\ FusionIdle /\ SearchIdle /\ StoreIdle

\* The file main is at.
Current == Head(ipc.todo)

\* Check without the comparison of the hashes: no file is skipped.
Check_AlwaysProcess ==
    /\ ipc.step = "check"
    /\ IF ipc.todo = <<>>
       THEN ipc' = [ipc EXCEPT !.step = "done"] /\ UNCHANGED working
       ELSE IF Current \in unreadable
       THEN ipc' = [ipc EXCEPT !.step = "crashed"] /\ working' = committed
       ELSE /\ ipc' = [ipc EXCEPT !.step = "delete", !.hash = file_hash(tree[Current])]
            /\ UNCHANGED working
    /\ UNCHANGED <<tree, unreadable, args, vec_table, committed, at_start, processed,
                   chunkerVars, fileVars, fusionVars, searchVars,
                   storeVars>>

\* Lines 369-384, the head of the loop: the run ends after the last file; a
\* file that cannot be read makes file_hash raise, which nothing catches;
\* a file whose hash is the recorded one is skipped.
Check ==
    /\ ipc.step = "check"
    /\ IF ipc.todo = <<>>
       THEN ipc' = [ipc EXCEPT !.step = "done"] /\ UNCHANGED working
       ELSE IF Current \in unreadable
       THEN ipc' = [ipc EXCEPT !.step = "crashed"] /\ working' = committed
       ELSE IF RecordedHash(working, Current) = {file_hash(tree[Current])}
       THEN ipc' = [ipc EXCEPT !.todo = Tail(@)] /\ UNCHANGED working
       ELSE /\ ipc' = [ipc EXCEPT !.step = "delete", !.hash = file_hash(tree[Current])]
            /\ UNCHANGED working
    /\ UNCHANGED <<tree, unreadable, args, vec_table, committed, at_start, processed,
                   chunkerVars, fileVars, fusionVars, searchVars,
                   storeVars>>

\* DeleteOldChunks with a commit after the two DELETEs.
DeleteOldChunks_Commits ==
    /\ ipc.step = "delete"
    /\ working' = DeleteOld(working, Current, vec_table)
    /\ committed' = working'
    /\ ipc' = [ipc EXCEPT !.step = "process"]
    /\ UNCHANGED <<tree, unreadable, args, vec_table, at_start, processed,
                   chunkerVars, fileVars, fusionVars, searchVars,
                   storeVars>>

\* Lines 388-393: the old rows go, inside the transaction the first DELETE
\* opens.
DeleteOldChunks ==
    /\ ipc.step = "delete"
    /\ working' = DeleteOld(working, Current, vec_table)
    /\ ipc' = [ipc EXCEPT !.step = "process"]
    /\ UNCHANGED <<tree, unreadable, args, vec_table, committed, at_start, processed,
                   chunkerVars, fileVars, fusionVars, searchVars,
                   storeVars>>

\* Lines 395-401: process_file; an exception of chunk_text ends the run, and
\* the open transaction is rolled back when the connection goes.
Process ==
    /\ ipc.step = "process"
    /\ LET r == bi_process_file(tree[Current], Current, args.chunk_size, args.chunk_overlap)
       IN  IF r.err
           THEN ipc' = [ipc EXCEPT !.step = "crashed"] /\ working' = committed
           ELSE /\ ipc' = [ipc EXCEPT !.chunks = r.all_chunks,
                                      !.step = IF r.all_chunks # <<>> THEN "index"
                                               ELSE "record"]
                /\ UNCHANGED working
    /\ UNCHANGED <<tree, unreadable, args, vec_table, committed, at_start, processed,
                   chunkerVars, fileVars, fusionVars, searchVars,
                   storeVars>>

\* index_chunks (lines 247-285): the rows, then the embeddings if they are
\* wanted, of which the first n are stored before anything raises (the
\* exception is caught), then the commit.
IndexChunks ==
    /\ ipc.step = "index"
    /\ \E n \in 0..Len(ipc.chunks) :
          /\ (~args.embeddings \/ ~vec_table) => n = 0
          /\ working' = InsertEmbeddings(InsertChunks(working, ipc.chunks), ipc.chunks, n)
    /\ committed' = working'
    /\ ipc' = [ipc EXCEPT !.step = "record"]
    /\ UNCHANGED <<tree, unreadable, args, vec_table, at_start, processed,
                   chunkerVars, fileVars, fusionVars, searchVars,
                   storeVars>>

\* Lines 407-413: the hash is recorded and committed; on to the next file.
RecordSource ==
    /\ ipc.step = "record"
    /\ working' = RecordHash(working, Current, ipc.hash)
    /\ committed' = working'
    /\ processed' = processed \cup {Current}
    /\ ipc' = [ipc EXCEPT !.step = "check", !.todo = Tail(@), !.chunks = <<>>]
    /\ UNCHANGED <<tree, unreadable, args, vec_table, at_start,
                   chunkerVars, fileVars, fusionVars, searchVars,
                   storeVars>>

IndexNext == Check \/ DeleteOldChunks \/ Process \/ IndexChunks \/ RecordSource

IndexSpec == IndexInit /\ [][IndexNext]_vars

\* The number of sections of the indexed document, the number of chunks of
\* its longest section, and the widest window get_context is asked for.
MaxSections == 3
MaxSectionChunks == 9
MaxWindow == 1

SectionTitles == {NoTitle, SomeTitle(<<"t">>)}

SectionSizes == {1, 2, MaxSectionChunks}

\* A document as process_file saw it: the title of each section and the
\* number of chunks chunk_text made of it.
Layouts ==
    UNION {[1..n -> [title : SectionTitles, count : SectionSizes]] : n \in 0..MaxSections}

\* The records process_file makes for a document of the given layout.
RECURSIVE LayoutRecords(_, _, _)
LayoutRecords(rel, layout, chunk_index) ==
    IF layout = <<>> THEN <<>>
    ELSE ChunkRecords(rel, Head(layout).title,
                      [j \in 1..Head(layout).count |-> <<"a">>], chunk_index)
             \o LayoutRecords(rel, Tail(layout), chunk_index + Head(layout).count)

\* The rows index_chunks inserts for the records into a table whose largest
\* rowid is `last`.
Inserted(records, last) ==
    {[rowid |-> last + i, id |-> records[i].id, source |-> records[i].source,
      title |-> records[i].title, content |-> records[i].content,
      chunk_index |-> records[i].chunk_index] : i \in 1..Len(records)}

\* The index the trigger chunks_ai has built for the rows.
Indexed(T) == {[rowid |-> r.rowid, term |-> r.content] : r \in T}

\* The chunk ids and source paths asked for; those of "c" are in no table.
LookupIds ==
    {<<"a", ":", "0">>, <<"a", ":", "1">>, <<"a", ":", "2">>, <<"a", ":", "1", "0">>,
     <<"b", ":", "0">>, <<"c", ":", "0">>}

LookupSources == {<<"a">>, <<"b">>, <<"c">>}

\* The database holds the document "a" and the one-chunk document "b".
LookupInit ==
    /\ \E layout \in Layouts :
          LET a == LayoutRecords(<<"a">>, layout, 0)
              b == ChunkRecords(<<"b">>, SomeTitle(<<"t">>), <<(<<"a">>)>>, 0)
          IN  chunks_tbl = Inserted(a, 0) \cup Inserted(b, Len(a))
    /\ fts_idx = Indexed(chunks_tbl)
    /\ lookup = NoCall
    /\ answer = <<>>
    /\ ChunkerIdle /\ FileIdle /\ FusionIdle /\ SearchIdle /\ IndexIdle

GetChunk ==
    /\ \E id \in LookupIds :
          /\ lookup' = [op |-> "get_chunk", arg |-> <<id>>]
          /\ answer' = get_chunk(chunks_tbl, id)
    /\ UNCHANGED <<chunks_tbl, fts_idx, chunkerVars, fileVars, fusionVars, searchVars,
                   indexVars>>

GetContext ==
    /\ \E id \in LookupIds, n_before \in 0..MaxWindow, n_after \in 0..MaxWindow :
          /\ lookup' = [op |-> "get_context", arg |-> <<id, n_before, n_after>>]
          /\ answer' = get_context(chunks_tbl, id, n_before, n_after)
    /\ UNCHANGED <<chunks_tbl, fts_idx, chunkerVars, fileVars, fusionVars, searchVars,
                   indexVars>>

GetSource ==
    /\ \E src \in LookupSources :
          /\ lookup' = [op |-> "get_source", arg |-> <<src>>]
          /\ answer' = get_source(chunks_tbl, src)
    /\ UNCHANGED <<chunks_tbl, fts_idx, chunkerVars, fileVars, fusionVars, searchVars,
                   indexVars>>

ListSections ==
    /\ \E src \in LookupSources :
          /\ lookup' = [op |-> "list_sections", arg |-> <<src>>]
          /\ answer' = list_sections(chunks_tbl, src)
    /\ UNCHANGED <<chunks_tbl, fts_idx, chunkerVars, fileVars, fusionVars, searchVars,
                   indexVars>>

LookupNext == GetChunk \/ GetContext \/ GetSource \/ ListSections

LookupSpec == LookupInit /\ [][LookupNext]_vars

\* The largest rowid the table gets to.
MaxRowid == 4

TriggerIds == {<<"a", ":", "0">>, <<"b", ":", "0">>}

\* The contents written: each is one term of the full-text index.
Terms == {<<"x">>, <<"y">>}

\* The row written for an id: the first chunk of its source, without title.
NewRow(rowid, id, term) ==
    [rowid |-> rowid, id |-> id, source |-> <<Head(id)>>, title |-> NoTitle,
     content |-> term, chunk_index |-> 0]

\* init_database has made the empty tables and the triggers.
TriggerInit ==
    /\ chunks_tbl = {}
    /\ fts_idx = {}
    /\ lookup = NoCall
    /\ answer = <<>>
    /\ ChunkerIdle /\ FileIdle /\ FusionIdle /\ SearchIdle /\ IndexIdle

\* INSERT INTO chunks of an id the table does not have: chunks_ai fires.
InsertRow ==
    /\ NextRowid(chunks_tbl) <= MaxRowid
    /\ \E id \in TriggerIds, term \in Terms :
          /\ \A r \in chunks_tbl : r.id # id
          /\ LET new == NewRow(NextRowid(chunks_tbl), id, term)
             IN  /\ chunks_tbl' = chunks_tbl \cup {new}
                 /\ fts_idx' = chunks_ai(fts_idx, new)
          /\ lookup' = [op |-> "insert", arg |-> <<id, term>>]
    /\ UNCHANGED <<answer, chunkerVars, fileVars, fusionVars, searchVars, indexVars>>

\* UPDATE chunks SET content = ? WHERE id = ?: chunks_au fires.
UpdateRow ==
    /\ \E old \in chunks_tbl, term \in Terms :
          LET new == [old EXCEPT !.content = term]
          IN  /\ chunks_tbl' = (chunks_tbl \ {old}) \cup {new}
              /\ fts_idx' = chunks_au(fts_idx, old, new)
              /\ lookup' = [op |-> "update", arg |-> <<old.id, term>>]
    /\ UNCHANGED <<answer, chunkerVars, fileVars, fusionVars, searchVars, indexVars>>

\* DELETE FROM chunks WHERE id = ?: chunks_ad fires.
DeleteRow ==
    /\ \E old \in chunks_tbl :
          /\ chunks_tbl' = chunks_tbl \ {old}
          /\ fts_idx' = chunks_ad(fts_idx, old)
          /\ lookup' = [op |-> "delete", arg |-> <<old.id>>]
    /\ UNCHANGED <<answer, chunkerVars, fileVars, fusionVars, searchVars, indexVars>>

\* INSERT OR REPLACE INTO chunks (build_index.py:257-261): the new row gets
\* its rowid, the row that has the id is removed by the conflict resolution,
\* for which no delete trigger fires (recursive_triggers is off), and
\* chunks_ai fires for the new row.
ReplaceRow ==
    /\ NextRowid(chunks_tbl) <= MaxRowid
    /\ \E id \in TriggerIds, term \in Terms :
          LET new == NewRow(NextRowid(chunks_tbl), id, term)
          IN  /\ chunks_tbl' = {r \in chunks_tbl : r.id # id} \cup {new}
              /\ fts_idx' = chunks_ai(fts_idx, new)
              /\ lookup' = [op |-> "replace", arg |-> <<id, term>>]
    /\ UNCHANGED <<answer, chunkerVars, fileVars, fusionVars, searchVars, indexVars>>

\* search_fts for one term.
KeywordSearch ==
    /\ \E term \in Terms :
          /\ lookup' = [op |-> "search_fts", arg |-> <<term>>]
          /\ answer' = fts_match(chunks_tbl, fts_idx, term)
    /\ UNCHANGED <<chunks_tbl, fts_idx, chunkerVars, fileVars, fusionVars, searchVars,
                   indexVars>>

TriggerNext == InsertRow \/ UpdateRow \/ DeleteRow \/ ReplaceRow \/ KeywordSearch

TriggerSpec == TriggerInit /\ [][TriggerNext]_vars

Init == ChunkerInit \/ FileInit \/ FusionInit \/ SearchInit \/ IndexInit \/ LookupInit \/ TriggerInit

Next == ChunkerNext \/ FileNext \/ FusionNext \/ SearchNext \/ IndexNext \/ LookupNext \/ TriggerNext

Spec == Init /\ [][Next]_vars

----------------------------------------------------------------------------
(* Claims about chunk_text.                                                *)

\* The preconditions of the chunker's contract.
InContract == chunk_size >= 1 /\ chunk_overlap >= 0 /\ chunk_overlap < chunk_size

\* The number of characters the overlap pass puts in front of out[i].
Injected(i) ==
    IF chunk_overlap > 0 /\ Len(raw) > 1 /\ i > 1
    THEN Min(chunk_overlap, Len(raw[i - 1].s)) + 1
    ELSE 0

\* C1 as stated: every returned string that is not a window of the hard
\* split has length <= chunk_size.
C1_Original ==
    (outcome = "returned" /\ InContract) =>
        \A i \in 1..Len(out) : raw[i].off = -1 => Len(out[i]) <= chunk_size

\* C1 (amended): a string that is not a window of the hard split has length
\* <= chunk_size before the overlap pass, and as returned it is longer by
\* exactly the injected prefix: a space and at most chunk_overlap characters.
C1_SizeBound ==
    (outcome = "returned" /\ InContract) =>
        /\ Len(out) = Len(raw)
        /\ \A i \in 1..Len(out) :
              raw[i].off = -1 =>
                 /\ Len(raw[i].s) <= chunk_size
                 /\ Len(out[i]) <= chunk_size + Injected(i)
                 /\ Injected(i) <= chunk_overlap + 1

\* C1 witness: a returned chunk that is not a hard-split window, fills the
\* whole budget and carries an injected prefix.
C1_Witness ==
    /\ outcome = "returned" /\ InContract
    /\ \E i \in 2..Len(out) :
          raw[i].off = -1 /\ Len(raw[i].s) = chunk_size /\ Len(out[i]) > chunk_size

RECURSIVE Concat(_)
Concat(ss) == IF ss = <<>> THEN <<>> ELSE Head(ss) \o Concat(Tail(ss))

NotWs(c) == c \notin Whitespace

\* The non-whitespace characters of s, in order.
NonWs(s) == SelectSeq(s, NotWs)

\* out[i] with the prefix injected by the overlap pass removed.
WithoutInjected(i) == SubSeq(out[i], Injected(i) + 1, Len(out[i]))

\* WithoutInjected(i) less the characters a hard-split window repeats from
\* the window before it: the window at offset off > 0 starts chunk_overlap
\* characters before the end of its predecessor.
WithoutRepeat(i) ==
    LET w == WithoutInjected(i)
    IN  IF raw[i].off > 0 THEN SubSeq(w, Min(chunk_overlap, Len(w)) + 1, Len(w))
        ELSE w

\* C2 as stated: the returned chunks, less the injected overlap, hold the
\* non-whitespace content of the input once and in order.
C2_Original ==
    (outcome = "returned" /\ InContract) =>
        NonWs(Concat([i \in 1..Len(out) |-> WithoutInjected(i)])) = NonWs(text)

\* C2 (amended): the returned chunks, less the injected overlap and less the
\* chunk_overlap leading characters that every hard-split window but the
\* first of its sentence repeats from the window before it, hold the
\* non-whitespace content of the input once and in order.
C2_Coverage ==
    (outcome = "returned" /\ InContract) =>
        NonWs(Concat([i \in 1..Len(out) |-> WithoutRepeat(i)])) = NonWs(text)

\* C2 witness: several chunks, one of them a repeated hard-split window and
\* one an accumulated chunk, with text in more than one token.
C2_Witness ==
    /\ outcome = "returned" /\ InContract /\ chunk_overlap > 0
    /\ \E i, j \in 1..Len(out) : raw[i].off > 0 /\ raw[j].off = -1
    /\ \E k \in 1..Len(text) : text[k] \in Whitespace

\* The last n characters of s, all of s when it has no more than n.
LastChars(s, n) == [k \in 1..Min(n, Len(s)) |-> s[Len(s) - Min(n, Len(s)) + k]]

\* C9: with two or more raw chunks and chunk_overlap > 0, the first returned
\* chunk is the first raw chunk and every later one is the last
\* chunk_overlap characters of the raw chunk before it, a space, and the raw
\* chunk itself.
C9_Overlap ==
    (outcome = "returned" /\ Len(raw) >= 2 /\ chunk_overlap > 0) =>
        /\ Len(out) = Len(raw)
        /\ out[1] = raw[1].s
        /\ \A i \in 2..Len(out) :
              out[i] = LastChars(raw[i - 1].s, chunk_overlap) \o <<SP>> \o raw[i].s

\* C9 witness: three chunks, the middle raw chunk shorter than chunk_overlap,
\* so that a chained overlap would differ from the one-directional one.
C9_Witness ==
    /\ outcome = "returned" /\ InContract /\ chunk_overlap > 0 /\ Len(raw) >= 3
    /\ Len(raw[2].s) < chunk_overlap
    /\ Len(out[2]) > Len(raw[2].s)

\* The windows of the hard split of s as the contract describes them:
\* window j starts at offset (j-1) * (chunk_size - chunk_overlap).
ContractWindows(s) ==
    LET step == chunk_size - chunk_overlap
        n == (Len(s) + step - 1) \div step
    IN  [j \in 1..n |->
            SubSeq(s, (j - 1) * step + 1, Min((j - 1) * step + chunk_size, Len(s)))]

SingleToken == text # <<>> /\ \A k \in 1..Len(text) : text[k] \notin Whitespace

\* C10 as stated: for every chunk_size >= 1 and chunk_overlap >= 0 the call
\* returns: [] for blank text, [text] when it fits, the hard-split pieces for
\* a single token longer than chunk_size.
C10_Original ==
    (outcome # "pending" /\ chunk_size >= 1 /\ chunk_overlap >= 0) =>
        /\ outcome = "returned"
        /\ Strip(text) = <<>> => out = <<>>
        /\ (Strip(text) # <<>> /\ Len(text) <= chunk_size) => out = <<text>>

\* C10 (amended): for chunk_size >= 1 and 0 <= chunk_overlap < chunk_size the
\* call returns without raising: [] for blank text, [text] when non-blank
\* text fits, and for a single token longer than chunk_size the hard-split
\* windows, each but the first behind the prefix of the overlap pass.
C10_Total ==
    (outcome # "pending" /\ InContract) =>
        /\ outcome = "returned"
        /\ Strip(text) = <<>> => out = <<>>
        /\ (Strip(text) # <<>> /\ Len(text) <= chunk_size) => out = <<text>>
        /\ (SingleToken /\ Len(text) > chunk_size) =>
              /\ Strings(raw) = ContractWindows(text)
              /\ \A i \in 1..Len(raw) : raw[i].off = (i - 1) * (chunk_size - chunk_overlap)
              /\ Len(out) = Len(raw)
              /\ \A i \in 1..Len(out) : WithoutInjected(i) = raw[i].s

\* C10 witness: a single token longer than chunk_size was hard-split with a
\* positive overlap.
C10_Witness ==
    /\ outcome = "returned" /\ InContract /\ chunk_overlap > 0
    /\ SingleToken /\ Len(text) > chunk_size
    /\ Len(out) >= 3

----------------------------------------------------------------------------
(* Claims about process_file.                                              *)

RECURSIVE ExpectedContents(_)
ExpectedContents(secs) ==
    IF secs = <<>> THEN <<>>
    ELSE LET c == chunk_text(Head(secs).body, chunk_size, chunk_overlap).chunks
         IN  [j \in 1..Len(c) |-> <<Head(secs).title, c[j]>>]
             \o ExpectedContents(Tail(secs))

\* C5: the records of a document carry chunk_index 0, 1, ..., n-1 in the
\* order the chunks are produced section after section, each id is
\* "{source}:{chunk_index}", and the ids are pairwise distinct.
C5_Sequential ==
    phase = "processed" =>
        /\ \A i \in 1..Len(all_chunks) :
              /\ all_chunks[i].chunk_index = i - 1
              /\ all_chunks[i].source = relative_path
              /\ all_chunks[i].id = relative_path \o <<":">> \o Decimal(i - 1)
        /\ \A i, j \in 1..Len(all_chunks) :
              i # j => all_chunks[i].id # all_chunks[j].id
        /\ [i \in 1..Len(all_chunks) |-> <<all_chunks[i].title, all_chunks[i].content>>]
              = ExpectedContents(parse_markdown_sections(doc))

\* C5 witness: a document of two sections, the second of which contributes
\* more than one chunk.
C5_Witness ==
    /\ phase = "processed"
    /\ \E i, j \in 2..Len(all_chunks) :
          /\ i < j
          /\ all_chunks[1].title # all_chunks[i].title
          /\ all_chunks[i].title = all_chunks[j].title

----------------------------------------------------------------------------
(* Claims about parse_markdown_sections.                                   *)

\* The characters of doc at the 0-based positions that satisfy Keep, in order.
RECURSIVE CharsWhere(_, _)
CharsWhere(Keep(_), p) ==
    IF p >= Len(doc) THEN <<>>
    ELSE (IF Keep(p) THEN <<doc[p + 1]>> ELSE <<>>) \o CharsWhere(Keep, p + 1)

\* Position p lies in the heading marker and the whitespace after it.
InMarker(p) == \E k \in 1..Len(HeaderMatches(doc)) :
                  HeaderMatches(doc)[k].start <= p /\ p < HeaderMatches(doc)[k].g2

\* Position p lies in a heading match.
InHeading(p) == \E k \in 1..Len(HeaderMatches(doc)) :
                   HeaderMatches(doc)[k].start <= p /\ p < HeaderMatches(doc)[k].end

NotInMarker(p) == ~InMarker(p)
NotInHeading(p) == ~InHeading(p)

TitleText(t) == IF t = NoTitle THEN <<>> ELSE t[1]

Bodies == [i \in 1..Len(sections) |-> sections[i].body]

\* The bodies are the trimmed slices recorded with them, and the slices lie
\* one after the other.
BodiesInOrder ==
    /\ \A i \in 1..Len(sections) :
          sections[i].body = Strip(PySlice(doc, sections[i].at, sections[i].upto))
    /\ \A i, j \in 1..Len(sections) : i < j => sections[i].upto <= sections[j].at

\* C6 as stated: the bodies do not overlap and everything in the text but
\* the heading markers is in exactly one section, as its body or its title
\* (a single body that is the whole trimmed text loses nothing either).
C6_Original ==
    phase = "parsed" =>
        /\ BodiesInOrder
        /\ \/ Bodies = <<Strip(doc)>>
           \/ NonWs(Concat([i \in 1..Len(sections) |->
                               TitleText(sections[i].title) \o sections[i].body]))
                 = NonWs(CharsWhere(NotInMarker, 0))

\* C6 (amended): the bodies are disjoint stretches of the document in
\* document order and hold every non-whitespace character outside the
\* heading matches exactly once; heading text is in no body.  The exception:
\* a non-blank document with nothing outside its headings yields one section
\* whose body is the whole trimmed text.
C6_Cover ==
    phase = "parsed" =>
        /\ BodiesInOrder
        /\ IF NonWs(CharsWhere(NotInHeading, 0)) # <<>>
           THEN /\ NonWs(Concat(Bodies)) = NonWs(CharsWhere(NotInHeading, 0))
                /\ \A i \in 1..Len(sections) :
                      \A q \in sections[i].at..(sections[i].upto - 1) : ~InHeading(q)
           ELSE Bodies = IF Strip(doc) = <<>> THEN <<>> ELSE <<Strip(doc)>>

\* C6 witness: content before the first heading, a heading without content,
\* and content after the last heading.
C6_Witness ==
    /\ phase = "parsed"
    /\ Len(HeaderMatches(doc)) >= 2
    /\ Len(sections) = 2
    /\ sections[1].title = NoTitle
    /\ sections[2].title = SomeTitle(HeaderMatches(doc)[2].title)

\* C7 as stated: no section has a blank body; a heading with no content
\* before the next heading yields no section; the section (None, trimmed
\* text) is the result exactly when the document has no heading and is not
\* blank; a blank document yields no section.
C7_Claim ==
    phase = "parsed" =>
        /\ \A i \in 1..Len(sections) : Strip(sections[i].body) # <<>>
        /\ \A k \in 1..Len(HeaderMatches(doc)) - 1 :
              Strip(PySlice(doc, HeaderMatches(doc)[k].end, HeaderMatches(doc)[k + 1].start)) = <<>>
                 => \A i \in 1..Len(sections) : sections[i].at # HeaderMatches(doc)[k].end
        /\ ([i \in 1..Len(sections) |-> <<sections[i].title, sections[i].body>>]
               = <<<<NoTitle, Strip(doc)>>>>)
              <=> (HeaderMatches(doc) = <<>> /\ Strip(doc) # <<>>)
        /\ Strip(doc) = <<>> => sections = <<>>

\* The heading matches that end at or before the 0-based offset p.
HeadingsBefore(p) == {k \in 1..Len(HeaderMatches(doc)) : HeaderMatches(doc)[k].end <= p}

\* C8: the sections are in document order, and the title of each is the text
\* of the last heading that ends before its body begins, None if there is no
\* such heading.
C8_Titles ==
    phase = "parsed" =>
        /\ \A i, j \in 1..Len(sections) : i < j => sections[i].at < sections[j].at
        /\ \A i \in 1..Len(sections) :
              /\ sections[i].body = Strip(PySlice(doc, sections[i].at, sections[i].upto))
              /\ sections[i].title =
                    IF HeadingsBefore(sections[i].at) = {} THEN NoTitle
                    ELSE LET k == CHOOSE x \in HeadingsBefore(sections[i].at) :
                                     \A y \in HeadingsBefore(sections[i].at) : y <= x
                         IN  SomeTitle(HeaderMatches(doc)[k].title)

\* C8 witness: a section under no heading followed by sections under two
\* headings of different levels and titles.
C8_Witness ==
    /\ phase = "parsed"
    /\ Len(sections) = 3
    /\ sections[1].title = NoTitle
    /\ sections[2].title = SomeTitle(<<"a">>)
    /\ sections[3].title = SomeTitle(<<"a", "a">>)

----------------------------------------------------------------------------
(* The claims about reciprocal_rank_fusion, over FusionSpec.               *)

\* The ids that appear in at least one of the lists.
IdsOf(lists) ==
    UNION {{lists[i][j].id : j \in 1..Len(lists[i])} : i \in 1..Len(lists)}

\* The 1-based position of id in the list, which holds it.
PositionIn(results, id) == CHOOSE j \in 1..Len(results) : results[j].id = id

HasId(results, id) == \E j \in 1..Len(results) : results[j].id = id

\* (k + 1) * (k + 2) * ... * (k + n): a denominator common to every
\* contribution of a list of at most n entries.
RECURSIVE CommonDenominator(_, _)
CommonDenominator(k, n) == IF n = 0 THEN 1 ELSE (k + n) * CommonDenominator(k, n - 1)

\* The sum over the lists [from..] that hold id of 1/(k + r + 1), as a
\* numerator over the common denominator d; r + 1 is the 1-based position.
RECURSIVE SumOfReciprocals(_, _, _, _, _)
SumOfReciprocals(lists, from, id, k, d) ==
    IF from > Len(lists) THEN 0
    ELSE (IF HasId(lists[from], id) THEN d \div (k + PositionIn(lists[from], id)) ELSE 0)
         + SumOfReciprocals(lists, from + 1, id, k, d)

\* The lists with every raw score replaced by a function of the id's rank.
Rescored(lists, profile) ==
    [i \in 1..Len(lists) |->
        [j \in 1..Len(lists[i]) |-> [id |-> lists[i][j].id, score |-> RawScore(profile, j - 1)]]]

----------------------------------------------------------------------------
(* The claims about search_docs, over SearchSpec.                          *)

\* The records are what the store resolves of the ranking and the source
\* filter lets pass, in ranking order, each with the score of the ranking.
RecordsOfRanking ==
    LET kept == SelectSeq(response.combined,
                    LAMBDA c : /\ c.id \in store.rows
                               /\ (response.entry = "db" /\ request.source_filter # <<>>)
                                     => Contains(Row(c.id).source, request.source_filter))
    IN  /\ Len(response.results) = Len(kept)
        /\ \A i \in 1..Len(kept) :
              /\ response.results[i].chunk_id = kept[i].id
              /\ response.results[i].score = kept[i].score

\* C4: when exactly one signal returned a list that is not empty, the final
\* ranking is that list cut to limit, raw scores unchanged, nothing fused;
\* when both did, it is the first limit entries of their reciprocal-rank
\* fusion with the fused scores; the records follow the ranking and are at
\* most limit.
C4_Ranking ==
    response.status = "returned" =>
        LET fts == response.signals.fts
            vec == response.signals.vec
        IN  /\ (fts # <<>> /\ vec = <<>>) => response.combined = Take(fts, request.limit)
            /\ (fts = <<>> /\ vec # <<>>) => response.combined = Take(vec, request.limit)
            /\ (fts # <<>> /\ vec # <<>>) =>
                  response.combined =
                     Take(reciprocal_rank_fusion(<<fts, vec>>, RRF_K), request.limit)
            /\ RecordsOfRanking
            /\ Len(response.results) <= request.limit

\* One signal: a keyword search whose only list is longer than the limit
\* comes back cut, with the keyword scores.
C4_WitnessSingle ==
    /\ response.status = "returned"
    /\ response.signals.fts # <<>>
    /\ response.signals.vec = <<>>
    /\ Len(store.fts) > request.limit
    /\ Len(response.results) = request.limit
    /\ response.results[1].score = store.fts[1].score

\* C4 witness, two signals: a hybrid search whose lists disagree on the
\* first id comes back fused and cut to the limit.
C4_Witness ==
    /\ response.status = "returned"
    /\ response.signals.fts # <<>>
    /\ response.signals.vec # <<>>
    /\ response.signals.fts[1].id # response.signals.vec[1].id
    /\ Len(reciprocal_rank_fusion(<<response.signals.fts, response.signals.vec>>, RRF_K))
          > request.limit
    /\ Len(response.results) = request.limit

----------------------------------------------------------------------------
(* chunk_text outside its contract, over ChunkerSpec.                      *)

\* Whether a is a subsequence of b.
RECURSIVE IsSubsequence(_, _)
IsSubsequence(a, b) ==
    IF a = <<>> THEN TRUE
    ELSE IF b = <<>> THEN FALSE
    ELSE IF Head(a) = Head(b) THEN IsSubsequence(Tail(a), Tail(b))
    ELSE IsSubsequence(a, Tail(b))

\* C11: called on a text that is not blank with parameters outside the
\* contract, chunk_text raises; at the least it does not return a list from
\* which non-whitespace content of the text is missing.  (The formula states
\* the second, weaker half: the call raises or the returned chunks still
\* hold the non-whitespace characters of the text in order.)
C11_Claim ==
    (outcome \in {"returned", "raised"} /\ ~InContract /\ Strip(text) # <<>>) =>
        \/ outcome = "raised"
        \/ IsSubsequence(NonWs(text), NonWs(Concat(out)))

----------------------------------------------------------------------------
(* The order of the fused result, over FusionSpec.                         *)

\* The ids of the input lists in the order the loops meet them.
Encountered == Concat([i \in 1..Len(results_lists) |->
                          [j \in 1..Len(results_lists[i]) |-> results_lists[i][j].id]])

\* The position at which id is first met.
FirstEncounter(id) ==
    CHOOSE p \in 1..Len(Encountered) :
        Encountered[p] = id /\ \A q \in 1..(p - 1) : Encountered[q] # id

\* C12: the fused result holds exactly the distinct ids of the input lists,
\* each once, by non-increasing combined score, ids of equal score in the
\* order in which they were first met; a single list keeps its order.
C12_Order ==
    fusion = "done" =>
        /\ {fused[i].id : i \in 1..Len(fused)} = IdsOf(results_lists)
        /\ \A i, j \in 1..Len(fused) : i # j => fused[i].id # fused[j].id
        /\ (\A i \in 1..Len(results_lists) : results_lists[i] = <<>>) => fused = <<>>
        /\ \A i, j \in 1..Len(fused) :
              i < j =>
                 /\ ~RatLess(fused[i].score, fused[j].score)
                 /\ fused[i].score = fused[j].score
                       => FirstEncounter(fused[i].id) < FirstEncounter(fused[j].id)
        /\ Len(results_lists) = 1 =>
              [i \in 1..Len(fused) |-> fused[i].id]
                 = [j \in 1..Len(results_lists[1]) |-> results_lists[1][j].id]

\* C12 witness: two ids of equal combined score that the lists rank in
\* opposite orders, an id of lower score, and an empty list among the inputs.
C12_Witness ==
    /\ fusion = "done"
    /\ \E i \in 1..Len(results_lists) : results_lists[i] = <<>>
    /\ \E i, j \in 1..Len(fused) :
          /\ i < j /\ fused[i].score = fused[j].score
          /\ \E l \in 1..Len(results_lists) :
                /\ HasId(results_lists[l], fused[i].id) /\ HasId(results_lists[l], fused[j].id)
                /\ PositionIn(results_lists[l], fused[j].id)
                      < PositionIn(results_lists[l], fused[i].id)
    /\ \E i, j \in 1..Len(fused) : RatLess(fused[j].score, fused[i].score)

----------------------------------------------------------------------------
(* An id of both lists against an id of one, over FusionSpec.              *)

\* The index of id in the fused result.
FusedAt(id) == CHOOSE i \in 1..Len(fused) : fused[i].id = id

InBoth(id) == HasId(results_lists[1], id) /\ HasId(results_lists[2], id)

InOne(id) == HasId(results_lists[1], id) # HasId(results_lists[2], id)

\* The 1-based position of an id of one list in that list.
PositionInOne(id) ==
    IF HasId(results_lists[1], id) THEN PositionIn(results_lists[1], id)
    ELSE PositionIn(results_lists[2], id)

\* The better of the two positions of an id of both lists.
BestPosition(id) ==
    Min(PositionIn(results_lists[1], id), PositionIn(results_lists[2], id))

\* C13 as stated: of two fused lists, an id of both scores strictly higher
\* than, and comes before, every id of only one, whatever the positions.
C13_Original ==
    (fusion = "done" /\ Len(results_lists) = 2) =>
        \A x, y \in ChunkIds :
            (InBoth(x) /\ InOne(y)) =>
                /\ RatLess(DictGet(fused, y), DictGet(fused, x))
                /\ FusedAt(x) < FusedAt(y)

\* C13 (amended): of two fused lists, an id of both scores strictly higher
\* than, and comes before, every id of only one whose position in its list
\* is not better than the better of the two positions of the first.
C13_BothOverOne ==
    (fusion = "done" /\ Len(results_lists) = 2) =>
        \A x, y \in ChunkIds :
            (InBoth(x) /\ InOne(y) /\ PositionInOne(y) >= BestPosition(x)) =>
                /\ RatLess(DictGet(fused, y), DictGet(fused, x))
                /\ FusedAt(x) < FusedAt(y)

\* C13 witness: with the default k, an id of both lists, at different
\* positions, and an id of one list at the better of these positions.
C13_Witness ==
    /\ fusion = "done" /\ Len(results_lists) = 2 /\ rrf_k = RRF_K
    /\ \E x, y \in ChunkIds :
          /\ InBoth(x) /\ InOne(y)
          /\ PositionIn(results_lists[1], x) # PositionIn(results_lists[2], x)
          /\ PositionInOne(y) = BestPosition(x)
          /\ FusedAt(x) < FusedAt(y)

----------------------------------------------------------------------------
(* Which signals a search invokes, over SearchSpec.                        *)

Finished == response.status \in {"returned", "raised"}

\* C14: search_docs invokes the keyword signal exactly when the mode is
\* keyword or hybrid, and the semantic signal exactly when the mode is
\* semantic or hybrid and the vector index is available; a semantic search
\* without a vector index returns the empty list and raises nothing.
C14_Signals ==
    (Finished /\ response.entry = "db") =>
        /\ response.signals.fts_called <=> request.mode \in {"keyword", "hybrid"}
        /\ response.signals.vec_called <=> (request.mode \in {"semantic", "hybrid"} /\ has_vec)
        /\ ~response.signals.fts_called => response.signals.fts = <<>>
        /\ ~response.signals.vec_called => response.signals.vec = <<>>
        /\ (request.mode = "semantic" /\ ~has_vec) =>
              response.status = "returned" /\ response.results = <<>>

\* C14 witness: a semantic search of a store that holds vectors and keyword
\* matches, without the vector index: no signal is invoked, nothing comes
\* back.
C14_Witness ==
    /\ response.status = "returned" /\ response.entry = "db"
    /\ request.mode = "semantic" /\ ~has_vec /\ request.query = "plain"
    /\ store.vec # <<>> /\ store.fts # <<>>
    /\ ~response.signals.fts_called /\ ~response.signals.vec_called
    /\ response.results = <<>>

\* A hybrid search with the vector index: both signals are invoked.
C14_WitnessBoth ==
    /\ response.status = "returned" /\ response.entry = "db"
    /\ request.mode = "hybrid" /\ has_vec
    /\ response.signals.fts_called /\ response.signals.vec_called
    /\ response.results # <<>>

\* C15: a request whose mode is not keyword, semantic or hybrid is rejected
\* with an error before any signal or store lookup is invoked, at both entry
\* points; it is never answered with a list.
C15_Claim ==
    (Finished /\ request.mode \notin VALID_SEARCH_MODES) =>
        /\ response.status = "raised"
        /\ ~response.signals.fts_called /\ ~response.signals.vec_called
        /\ response.combined = <<>> /\ response.results = <<>>

\* C16: for a blank query, and for a query that nothing in the store
\* matches, search_docs returns the empty list and raises nothing, in every
\* mode and whatever the state of the vector index.
C16_Claim ==
    (/\ Finished /\ response.entry = "db"
     /\ request.mode \in VALID_SEARCH_MODES
     /\ request.query = "blank" \/ (store.fts = <<>> /\ store.vec = <<>>)) =>
        response.status = "returned" /\ response.results = <<>>

\* The entries of the final ranking whose id the store resolves.
Resolved == SelectSeq(response.combined, LAMBDA c : c.id \in store.rows)

\* Whether the record passes the caller's source filter, if there is one.
PassesFilter(c) ==
    request.source_filter # <<>> => Contains(Row(c.id).source, request.source_filter)

\* C17: the records are exactly the ranked ids the store resolves, in
\* ranking order, each with the score it had in the ranking and the fields
\* of its row; an id the store does not resolve is left out without an
\* error.  (With a source filter, the resolved ids that pass it.)
C17_Resolved ==
    (response.status = "returned") =>
        LET kept == SelectSeq(Resolved, PassesFilter)
        IN  /\ request.source_filter = <<>> => Len(response.results) = Len(Resolved)
            /\ Len(response.results) = Len(kept)
            /\ \A i \in 1..Len(kept) :
                  /\ response.results[i].chunk_id = kept[i].id
                  /\ response.results[i].score = kept[i].score
                  /\ response.results[i].source = Row(kept[i].id).source
                  /\ response.results[i].chunk_index = Row(kept[i].id).chunk_index

\* C17 witness: a ranking of three ids the second of which the store no
\* longer holds, and whose order is not that of the ids; the two others
\* come back in ranking order.
C17_Witness ==
    /\ response.status = "returned"
    /\ request.source_filter = <<>>
    /\ Len(response.combined) = 3
    /\ response.combined[2].id \notin store.rows
    /\ Len(response.results) = 2
    /\ response.results[1].chunk_id = "b:0"

\* The semantic signal gave nothing: the vector index is unavailable or
\* holds no embeddings, or the signal was invoked on stored vectors and came
\* back empty, which is what it does when embedding or the query fails.
SemanticAbsent ==
    \/ ~has_vec
    \/ store.vec = <<>>
    \/ response.signals.vec_called /\ response.signals.vec = <<>>

\* C18: when the semantic signal is absent, a hybrid search_docs raises
\* nothing and returns the records, order and scores of the keyword search
\* for the same query and limit: the keyword list cut to limit, unfused.
C18_Fallback ==
    (Finished /\ response.entry = "db" /\ request.mode = "hybrid" /\ SemanticAbsent) =>
        /\ response.status = "returned"
        /\ response.combined = Take(response.signals.fts, request.limit)
        /\ response.results =
              search_docs(store, [request EXCEPT !.mode = "keyword"], has_vec, FALSE).results

\* C18 witness: a hybrid search with the vector index on and vectors stored
\* that rank another id first, the semantic signal failing: the keyword
\* records come back with the keyword scores.
C18_Witness ==
    /\ response.status = "returned" /\ response.entry = "db"
    /\ request.mode = "hybrid" /\ has_vec
    /\ store.vec # <<>> /\ store.fts # <<>>
    /\ store.vec[1].id # store.fts[1].id
    /\ response.signals.vec_called /\ response.signals.vec = <<>>
    /\ Len(response.results) >= 2
    /\ response.results[1].score = store.fts[1].score

----------------------------------------------------------------------------
(* C19: after the indexer has processed a changed document, the rows stored *)
(* for that source are exactly the chunks produced from the new content:    *)
(* no row of the previous version is left, whatever the two chunk counts    *)
(* are, a new version of zero chunks included; and no vector entry of the   *)
(* source is left for an id the new version does not have.                  *)

\* The chunks process_file makes of the file at rel as it is now.
NewChunks(rel) ==
    bi_process_file(tree[rel], rel, args.chunk_size, args.chunk_overlap).all_chunks

NewRows(rel) == {NewChunks(rel)[i] : i \in 1..Len(NewChunks(rel))}

\* The entries of chunks_vec whose id is "<rel>:<n>".
VectorsOf(db, rel) ==
    {id \in db.vec : Len(id) > Len(rel) /\ SubSeq(id, 1, Len(rel) + 1) = rel \o <<":">>}

C19_Replaced ==
    \A rel \in processed :
       /\ RowsOf(committed, rel) = NewRows(rel)
       /\ VectorsOf(committed, rel) \subseteq {r.id : r \in NewRows(rel)}

\* One source went from more chunks to fewer, another to none at all.
C19_Witness ==
    /\ \E rel \in processed :
          /\ NewRows(rel) # {}
          /\ \E r \in RowsOf(at_start, rel) : r.chunk_index >= Cardinality(NewRows(rel))
    /\ \E rel \in processed :
          /\ NewRows(rel) = {}
          /\ RowsOf(at_start, rel) # {}

----------------------------------------------------------------------------
(* C20: in every committed state of the store, the rows of a source are     *)
(* either all those of its version at the start of the run or all those of  *)
(* its new version: the DELETE of the old rows and the INSERT of the new    *)
(* ones are in one transaction, so what a reader's statement sees is never  *)
(* a source with its old rows gone and the new ones missing, nor a mixture. *)

\* The sets of rows a source may be seen with.
Versions(src) ==
    {RowsOf(at_start, src)}
        \cup (IF src \in DOMAIN tree /\ src \notin unreadable
                 /\ ~bi_process_file(tree[src], src, args.chunk_size,
                                     args.chunk_overlap).err
              THEN {NewRows(src)} ELSE {})

C20_Committed == \A src \in IndexPaths : RowsOf(committed, src) \in Versions(src)

\* The old rows are deleted in the open transaction and the new ones are
\* not yet inserted; the committed state still has the old version whole.
C20_Witness ==
    /\ ipc.step \in {"process", "index"}
    /\ RowsOf(working, Current) = {}
    /\ NewRows(Current) # {}
    /\ Cardinality(RowsOf(committed, Current)) > 1
    /\ RowsOf(committed, Current) = RowsOf(at_start, Current)

----------------------------------------------------------------------------
(* C21: the DELETE of a file's old rows, the INSERT of the new ones with    *)
(* their embeddings when embeddings are enabled, and the record of the new  *)
(* hash are one transaction: when a step fails, the generation or storage   *)
(* of the embeddings included, nothing of the unit is committed.            *)

\* index_chunks is leaving with embeddings wanted and not all of them stored.
EmbeddingsFail ==
    /\ ipc.step = "index"
    /\ ipc'.step = "record"
    /\ args.embeddings
    /\ \E i \in 1..Len(ipc.chunks) : ipc.chunks[i].id \notin working'.vec

C21_Claim == [][EmbeddingsFail => committed' = committed]_vars

----------------------------------------------------------------------------
(* C22: the failure of one file is isolated.  Every file of the tree that   *)
(* can itself be read and chunked is dealt with by the run (it is processed *)
(* or skipped as unchanged), whatever happens to the others: the run never  *)
(* stops with such a file left.  A run of main is finite, so "eventually"   *)
(* is stated of the state in which the run has stopped.                     *)

\* The file can be hashed and process_file does not raise on it.
Sound(rel) ==
    /\ rel \in DOMAIN tree
    /\ rel \notin unreadable
    /\ ~bi_process_file(tree[rel], rel, args.chunk_size, args.chunk_overlap).err

\* The store has the file as it is now: it was skipped or processed.
DealtWith(rel) ==
    /\ rel \in DOMAIN tree
    /\ RecordedHash(committed, rel) = {file_hash(tree[rel])}

\* main has returned, or an exception has left it.
Stopped == ipc.step \in {"done", "crashed"}

C22_Claim == Stopped => \A rel \in IndexPaths : Sound(rel) => DealtWith(rel)

----------------------------------------------------------------------------
(* C23: a run over an unchanged tree (the hash of every file is the one     *)
(* recorded) skips every file: nothing is processed, the stored chunks,     *)
(* vectors and hashes stay those of the start, and the run ends normally    *)
(* when every file can be read.  The stored rows are the chunks, with the   *)
(* ids and contents, process_file gives for the same text and arguments.    *)

Unchanged ==
    \A rel \in DOMAIN tree : RecordedHash(at_start, rel) = {file_hash(tree[rel])}

C23_Idempotent ==
    Unchanged =>
        /\ committed = at_start
        /\ working = at_start
        /\ processed = {}
        /\ ipc.step \in {"check", "done", "crashed"}
        /\ unreadable = {} => ipc.step # "crashed"
        /\ \A rel \in DOMAIN tree : RowsOf(committed, rel) = NewRows(rel)

\* The run over two unchanged files with stored chunks has ended.
C23_Witness ==
    /\ Unchanged
    /\ ipc.step = "done"
    /\ DOMAIN tree = IndexPaths
    /\ \A rel \in DOMAIN tree : RowsOf(at_start, rel) # {}

----------------------------------------------------------------------------
(* C29: the steps that re-index one source leave the data of every other    *)
(* source as it was: its rows of chunks, its entries of chunks_vec and its  *)
(* recorded hash; the DELETE by the pattern "<source>:%" removes entries of *)
(* that source only, for paths that hold _ or % as well.                    *)

\* The step taken is one of the writes of the unit of the current file.
WritesCurrent ==
    /\ ipc.step \in {"delete", "index", "record"}
    /\ ipc'.step # "crashed"

C29_Claim ==
    [][WritesCurrent =>
          \A src \in IndexPaths \ {Current} :
             /\ RowsOf(working', src) = RowsOf(working, src)
             /\ VectorsOf(working', src) = VectorsOf(working, src)
             /\ RecordedHash(working', src) = RecordedHash(working, src)]_vars

----------------------------------------------------------------------------
(* C30: when a run of the indexer has completed, every source with rows of  *)
(* chunks or a recorded hash in the store is a file of the tree: nothing of *)
(* a file removed since an earlier run is left.                             *)

\* list_sources, and the paths of the sources table.
StoredSources(db) == {r.source : r \in db.chunks} \cup {r.path : r \in db.sources}

C30_Claim == ipc.step = "done" => StoredSources(committed) \subseteq DOMAIN tree

----------------------------------------------------------------------------
(* C24: a lookup of an unknown chunk id or source path returns an answer    *)
(* that says so and changes nothing in the store: get_chunk returns None;   *)
(* get_context returns target None, an empty context and the key "error";   *)
(* get_source returns no chunks, total 0 and the key "error".  A known id   *)
(* or path gets its row or rows and no "error".                             *)

KnownId(id) == \E r \in chunks_tbl : r.id = id

KnownSource(src) == \E r \in chunks_tbl : r.source = src

UnknownAnswered ==
    /\ lookup.op = "get_chunk" => (answer = <<>> <=> ~KnownId(lookup.arg[1]))
    /\ lookup.op = "get_context" =>
          IF KnownId(lookup.arg[1])
          THEN answer.target # <<>> /\ answer.error = <<>>
          ELSE answer.target = <<>> /\ answer.context = <<>> /\ answer.error # <<>>
    /\ lookup.op = "get_source" =>
          IF KnownSource(lookup.arg[1])
          THEN answer.chunks # <<>> /\ answer.total > 0 /\ answer.error = <<>>
          ELSE answer.chunks = <<>> /\ answer.total = 0 /\ answer.error # <<>>

\* Every call is answered so and leaves the table and the index as they were.
C24_Unknown ==
    [][UnknownAnswered' /\ chunks_tbl' = chunks_tbl /\ fts_idx' = fts_idx]_vars

\* The path asked for is in no row of a table that has rows.
C24_Witness ==
    /\ lookup.op = "get_source"
    /\ ~KnownSource(lookup.arg[1])
    /\ Cardinality(chunks_tbl) > 1
    /\ answer.total = 0

----------------------------------------------------------------------------
(* C27: for every indexed source, list_sections returns one entry for each  *)
(* distinct section title, in the order of the titles' first chunks, and    *)
(* the chunk_id of an entry is the id of the first chunk with the title:    *)
(* "<source>:<chunk_index>" for the chunk_index of the same entry, for any  *)
(* number of chunks.                                                        *)

C27_Claim ==
    lookup.op = "list_sections" =>
        LET src == lookup.arg[1]
            rows == {r \in chunks_tbl : r.source = src}
            n == Len(answer)
        IN  /\ {answer[i].title : i \in 1..n} = {r.title : r \in rows}
            /\ \A i, j \in 1..n : i < j => answer[i].chunk_index < answer[j].chunk_index
            /\ \A i \in 1..n :
                  /\ \E r \in rows : r.title = answer[i].title
                                     /\ r.chunk_index = answer[i].chunk_index
                  /\ \A r \in rows : r.title = answer[i].title
                                     => answer[i].chunk_index <= r.chunk_index
                  /\ answer[i].chunk_id = src \o <<":">> \o Decimal(answer[i].chunk_index)

----------------------------------------------------------------------------
(* C25: when chunk_text hard-splits a sentence longer than chunk_size, with *)
(* 0 <= chunk_overlap < chunk_size, the raw pieces are the windows of the   *)
(* sentence at the offsets 0, s, 2s, ... for s = chunk_size - chunk_overlap *)
(* and every piece but the last of the sentence has exactly chunk_size      *)
(* characters.                                                              *)

\* raw[i] is a piece of a hard split and raw[i + 1] the next piece of the
\* same sentence.
HardSplitGoesOn(i) == i < Len(raw) /\ raw[i].off >= 0 /\ raw[i + 1].off > 0

C25_Claim ==
    (outcome = "returned" /\ InContract) =>
        /\ \A i \in 1..Len(raw) :
              HardSplitGoesOn(i) =>
                 /\ raw[i + 1].off = raw[i].off + (chunk_size - chunk_overlap)
                 /\ Len(raw[i].s) = chunk_size
        /\ (SingleToken /\ Len(text) > chunk_size) =>
              /\ raw # <<>> /\ raw[1].off = 0
              /\ \A i \in 1..Len(raw) :
                    raw[i].s = PySlice(text, raw[i].off, raw[i].off + chunk_size)

----------------------------------------------------------------------------
(* C28: for every text, every chunk_size >= 1 and every chunk_overlap with  *)
(* 0 <= chunk_overlap < chunk_size, no string chunk_text returns is empty   *)
(* or made of whitespace only.                                              *)

C28_Claim ==
    (outcome = "returned" /\ InContract) =>
        \A i \in 1..Len(out) : Strip(out[i]) # <<>>

----------------------------------------------------------------------------
(* C26: after any sequence of writes to the chunks table (INSERT, UPDATE,   *)
(* DELETE and the INSERT OR REPLACE of index_chunks, a replace of an id     *)
(* that exists included) the full-text index is in sync with the table: a   *)
(* keyword search finds a chunk if and only if the current row of the chunk *)
(* holds the term.                                                          *)

C26_Claim ==
    \A term \in Terms :
       fts_match(chunks_tbl, fts_idx, term) = {r.id : r \in {q \in chunks_tbl : q.content = term}}

============================================================================
